---- MODULE Spec2Model ----
(***************************************************************************)
(* A state-machine model of the vinyl write scheduler                      *)
(* (src/box/vy_scheduler.c).                                               *)
(*                                                                         *)
(* The tx thread runs cooperative fibers: the scheduler fiber              *)
(* (vy_scheduler_f), the fibers that call the scheduler API (dump,         *)
(* checkpoint, DDL, writers) and the cbus callbacks.  A fiber runs from    *)
(* one yield to the next without interruption, so every action of the      *)
(* model is the code between two yields.  The C functions are operators    *)
(* from a state record to a state record; an action commits the record an  *)
(* operator returns.                                                       *)
(***************************************************************************)
EXTENDS Integers, Sequences, FiniteSets, TLC

\* ------------------------------------------------------------------------
\* Bounds of the model.
\* ------------------------------------------------------------------------
\* How many calls of the scheduler's interface (trigger_dump, dump,
\* begin_checkpoint, index creation and drop, writes) the other fibers of
\* tx make.
MaxCalls == 3
\* write_threads passed to vy_scheduler_create(): a value that gives two
\* dump workers, and the least value the code accepts, which gives one
\* worker to each pool.
WriteThreads == 8
FewWriteThreads == 2
\* How many failures (task execution, vylog commit, run preparation; for
\* the deferred DELETE channel: batch allocation, completion of the task)
\* the environment may inject.
MaxErrors == 1
\* How many deferred DELETE batches of a task tx may fail to process.
MaxBatchErrors == 2
\* How many times a range may come to need compaction.
MaxCompactions == 1
\* MaxCalls of the specification with fairness.
FairCalls == 2
NewCalls == 2
\* MaxErrors and MaxCalls of the specification of the back-off.
MaxBackoffs == 9
BackoffCalls == 2
SpacesCalls == 3
WaitersCalls == 3
LogCalls == 3
MemsCalls == 5
MaxRuns == 5
MaxMems == 4
RangeCount == 2
CompactWorkers == 2
MaxSlices == 4
MaxRunIds == 3
MaxOtherSlices == 1

\* ------------------------------------------------------------------------
\* Program constants.
\* ------------------------------------------------------------------------
VY_SCHEDULER_TIMEOUT_MIN == 1
VY_SCHEDULER_TIMEOUT_MAX == 60
\* The capacity of a deferred DELETE batch, and how many batches of a task
\* may be in flight.
VY_DEFERRED_DELETE_BATCH_MAX == 100
MAX_IN_PROGRESS == 10

Max(a, b) == IF a > b THEN a ELSE b
SetMin(S) == CHOOSE x \in S : \A y \in S : x <= y
SetMax(S) == CHOOSE x \in S : \A y \in S : x >= y

\* ------------------------------------------------------------------------
\* The LSM trees of the model: one space with a primary index P and two
\* secondary indexes S1 and S2, and the primary index Q of a second space.
\* ------------------------------------------------------------------------
Lsms == {"P", "S1", "S2", "Q"}
NoLsm == "none"
index_id(l) == CASE l = "P" -> 0 [] l = "S1" -> 1 [] l = "S2" -> 2 [] l = "Q" -> 0
pk(l) == IF l = "Q" THEN "Q" ELSE "P"
Secondaries == {l \in Lsms : index_id(l) # 0}

\* ------------------------------------------------------------------------
\* Worker pools (vy_scheduler_create).
\* ------------------------------------------------------------------------
dump_threads(wt) == Max(1, wt \div 4)
Pools == {"dump", "compact"}
PoolSize(wt, pool) ==
    IF pool = "dump" THEN dump_threads(wt) ELSE wt - dump_threads(wt)
Workers == {w \in Pools \X (0..(Max(WriteThreads, FewWriteThreads) - 1)) :
                w[2] < PoolSize(Max(WriteThreads, FewWriteThreads), w[1])}
NoWorker == <<"none", 0>>

\* The fibers that call the blocking API.
DumpFibers == {"d1", "d2"}
Fibers == {"ckpt"} \cup DumpFibers

NoTask == [kind |-> "none", lsm |-> NoLsm, stage |-> "none",
           is_failed |-> FALSE, created |-> 0, dropped |-> 0]

VARIABLES
    \* the argument of vy_scheduler_create()
    write_threads,
    \* struct vy_scheduler
    generation, dump_generation, dump_task_count, checkpoint_in_progress,
    dump_pending, is_throttled, timeout, processed_tasks,
    \* struct vy_worker_pool: idle_workers and workers != NULL, per pool
    idle_workers, pool_started,
    \* fibers waiting on vy_scheduler::dump_cond, in the order they wait
    dump_cond,
    \* struct vy_lsm, per LSM tree
    lsm_state, in_dump, in_compact, is_dumping, pin_count, mems, data,
    compact_priority, range_in_heap,
    \* struct vy_task of the task a worker holds
    task,
    \* the scheduler fiber: where it yielded and its local variables
    sched,
    \* the fibers calling dump() and the checkpoint functions
    fiber_pc, ckpt_generation,
    \* what the environment may still do
    errors_left, compactions_left, calls_left,
    \* the outcome of the run of the task deleted last
    deleted_task,
    \* assertions of the code that were found false
    failed_asserts,
    \* the deferred DELETE channel of a compaction task of the primary index
    dd,
    \* scheduler->dump_start: the time the round in progress was started at,
    \* or the last round was completed at
    dump_start,
    \* scheduler->diag: whether it holds an error (!diag_is_empty)
    diag,
    \* how many times the scheduler has gone to the error label since
    \* vy_task_complete() last returned 0
    backoffs,
    \* the scheduler's surroundings, if they keep count (on): the dump-lsm
    \* and create-run records committed to the vylog per tree, and the
    \* calls of the dump_complete_cb given to vy_scheduler_create(), and
    \* the in-memory trees given to the write iterator of each tree's last
    \* dump task (wi), and the write iterators a failed constructor left
    \* open (wi_unclosed)
    log,
    \* the ranges of one LSM tree with their slices, its sealed in-memory
    \* trees, and its dump task and compaction task
    lt

scheduler_vars == <<write_threads, generation, dump_generation, dump_task_count, checkpoint_in_progress,
          dump_pending, is_throttled, timeout, processed_tasks,
          idle_workers, pool_started, dump_cond,
          lsm_state, in_dump, in_compact, is_dumping, pin_count, mems, data,
          compact_priority, range_in_heap, task, sched, fiber_pc,
          ckpt_generation, errors_left, compactions_left, calls_left,
          deleted_task, failed_asserts, dump_start, diag, backoffs, log>>
vars == <<scheduler_vars, dd, lt>>

\* The current state as a record, and the action that makes a record the
\* next state.
St == [write_threads |-> write_threads, generation |-> generation, dump_generation |-> dump_generation,
       dump_task_count |-> dump_task_count,
       checkpoint_in_progress |-> checkpoint_in_progress,
       dump_pending |-> dump_pending, is_throttled |-> is_throttled,
       timeout |-> timeout, processed_tasks |-> processed_tasks,
       idle_workers |-> idle_workers, pool_started |-> pool_started,
       dump_cond |-> dump_cond, lsm_state |-> lsm_state, in_dump |-> in_dump,
       in_compact |-> in_compact, is_dumping |-> is_dumping,
       pin_count |-> pin_count, mems |-> mems, data |-> data,
       compact_priority |-> compact_priority,
       range_in_heap |-> range_in_heap, task |-> task, sched |-> sched,
       fiber_pc |-> fiber_pc, ckpt_generation |-> ckpt_generation,
       errors_left |-> errors_left, compactions_left |-> compactions_left,
       calls_left |-> calls_left, deleted_task |-> deleted_task,
       failed_asserts |-> failed_asserts, dump_start |-> dump_start,
       diag |-> diag, backoffs |-> backoffs, log |-> log]

Commit(s) ==
    /\ write_threads' = s.write_threads
    /\ generation' = s.generation
    /\ dump_generation' = s.dump_generation
    /\ dump_task_count' = s.dump_task_count
    /\ checkpoint_in_progress' = s.checkpoint_in_progress
    /\ dump_pending' = s.dump_pending
    /\ is_throttled' = s.is_throttled
    /\ timeout' = s.timeout
    /\ processed_tasks' = s.processed_tasks
    /\ idle_workers' = s.idle_workers
    /\ pool_started' = s.pool_started
    /\ dump_cond' = s.dump_cond
    /\ lsm_state' = s.lsm_state
    /\ in_dump' = s.in_dump
    /\ in_compact' = s.in_compact
    /\ is_dumping' = s.is_dumping
    /\ pin_count' = s.pin_count
    /\ mems' = s.mems
    /\ data' = s.data
    /\ compact_priority' = s.compact_priority
    /\ range_in_heap' = s.range_in_heap
    /\ task' = s.task
    /\ sched' = s.sched
    /\ fiber_pc' = s.fiber_pc
    /\ ckpt_generation' = s.ckpt_generation
    /\ errors_left' = s.errors_left
    /\ compactions_left' = s.compactions_left
    /\ calls_left' = s.calls_left
    /\ deleted_task' = s.deleted_task
    /\ failed_asserts' = s.failed_asserts
    /\ dump_start' = s.dump_start
    /\ diag' = s.diag
    /\ backoffs' = s.backoffs
    /\ log' = s.log
    /\ UNCHANGED <<dd, lt>>

\* assert(cond): the model goes on as a build without assertions does and
\* records the assertion that was false.
assert(s, cond, name) ==
    IF cond THEN s ELSE [s EXCEPT !.failed_asserts = @ \cup {name}]

\* ------------------------------------------------------------------------
\* The LSM tree as the scheduler sees it.
\* ------------------------------------------------------------------------
is_dropped(s, l) == s.lsm_state[l] = "dropped"

\* The generation of the oldest in-memory tree of the LSM tree.
vy_lsm_generation(s, l) == SetMin(s.mems[l])

\* The active in-memory tree is the newest one.
ActiveMem(s, l) == SetMax(s.mems[l])

\* Seal the active in-memory tree and open one of the current generation.
vy_lsm_rotate_mem(s, l) == [s EXCEPT !.mems[l] = @ \cup {s.generation}]

\* The priority of the range on top of the range heap, 0 with no range there.
vy_lsm_compact_priority(s, l) ==
    IF s.range_in_heap[l] THEN s.compact_priority[l] ELSE 0

vy_scheduler_dump_in_progress(s) == s.dump_generation < s.generation

\* ------------------------------------------------------------------------
\* The heaps.  A heap is the set of the trees whose position in it is not
\* UINT32_MAX; its top is a least element of the less function.
\* ------------------------------------------------------------------------
\* vy_dump_heap_less() with the last comparison turned around: among
\* equals the primary index comes first.
vy_dump_heap_less_primary_first(s, i1, i2) ==
    IF s.is_dumping[i1] # s.is_dumping[i2]
    THEN (~s.is_dumping[i1]) /\ s.is_dumping[i2]
    ELSE IF s.pin_count[i1] # s.pin_count[i2]
    THEN s.pin_count[i1] < s.pin_count[i2]
    ELSE IF vy_lsm_generation(s, i1) # vy_lsm_generation(s, i2)
    THEN vy_lsm_generation(s, i1) < vy_lsm_generation(s, i2)
    ELSE index_id(i1) < index_id(i2)

vy_dump_heap_less(s, i1, i2) ==
    IF s.is_dumping[i1] # s.is_dumping[i2]
    THEN (~s.is_dumping[i1]) /\ s.is_dumping[i2]
    ELSE IF s.pin_count[i1] # s.pin_count[i2]
    THEN s.pin_count[i1] < s.pin_count[i2]
    ELSE IF vy_lsm_generation(s, i1) # vy_lsm_generation(s, i2)
    THEN vy_lsm_generation(s, i1) < vy_lsm_generation(s, i2)
    ELSE index_id(i1) > index_id(i2)

DumpHeap(s) == {l \in Lsms : s.in_dump[l]}
CompactHeap(s) == {l \in Lsms : s.in_compact[l]}

\* Trees that compare equal (the primary indexes of two spaces) may be in
\* either order in the heap: pick, chosen by the caller, is on top if it is
\* a least element.
vy_dump_heap_top_among(s, pick) ==
    LET least == {l \in DumpHeap(s) :
                    \A m \in DumpHeap(s) \ {l} : ~vy_dump_heap_less(s, m, l)}
    IN IF least = {} THEN NoLsm
       ELSE IF pick \in least THEN pick
       ELSE CHOOSE l \in least : TRUE

vy_dump_heap_top(s) == vy_dump_heap_top_among(s, NoLsm)

vy_compact_heap_less(s, i1, i2) ==
    vy_lsm_compact_priority(s, i1) > vy_lsm_compact_priority(s, i2)

\* Trees of equal priority may be in either order in the heap: pick, chosen
\* by the caller, is on top if it is a least element.
vy_compact_heap_top(s, pick) ==
    LET least == {l \in CompactHeap(s) :
                    \A m \in CompactHeap(s) \ {l} :
                        ~vy_compact_heap_less(s, m, l)}
    IN IF least = {} THEN NoLsm
       ELSE IF pick \in least THEN pick
       ELSE CHOOSE l \in least : TRUE

\* ------------------------------------------------------------------------
\* Condition variables.
\* ------------------------------------------------------------------------
Woken(pc) == CASE pc = "wait" -> "woken"
               [] pc = "ckpt_wait" -> "ckpt_woken"
               [] pc = "round_wait" -> "round_woken"
               [] OTHER -> pc

\* fiber_cond_signal(&scheduler->dump_cond): wake the first waiter.
signal_dump_cond(s) ==
    IF s.dump_cond = <<>> THEN s
    ELSE [s EXCEPT !.fiber_pc[Head(s.dump_cond)] = Woken(@),
                   !.dump_cond = Tail(@)]

\* fiber_cond_wait(&scheduler->dump_cond) by fiber f, which stops at pc.
wait_dump_cond(s, f, pc) ==
    [s EXCEPT !.fiber_pc[f] = pc, !.dump_cond = Append(@, f)]

\* fiber_cond_signal(&scheduler->scheduler_cond): only the scheduler fiber
\* waits on it; a signal that finds it not waiting is lost.
signal_scheduler_cond(s) ==
    IF s.sched.pc = "wait" THEN [s EXCEPT !.sched.pc = "loop"] ELSE s

\* ------------------------------------------------------------------------
\* Worker pools.
\* ------------------------------------------------------------------------
RECURSIVE SeqOfPool(_, _)
SeqOfPool(pool, n) ==
    IF n = 0 THEN <<>> ELSE Append(SeqOfPool(pool, n - 1), <<pool, n - 1>>)

vy_worker_pool_start(s, pool) ==
    [s EXCEPT !.pool_started[pool] = TRUE,
              !.idle_workers[pool] = SeqOfPool(pool, PoolSize(s.write_threads, pool))]

\* The pool after vy_worker_pool_get(), and the worker it returned.
PoolStarted(s, pool) ==
    IF s.pool_started[pool] THEN s ELSE vy_worker_pool_start(s, pool)

vy_worker_pool_get_worker(s, pool) ==
    LET t == PoolStarted(s, pool)
    IN IF t.idle_workers[pool] = <<>> THEN NoWorker
       ELSE Head(t.idle_workers[pool])

\* vy_worker_pool_get() that leaves the worker in idle_workers.
vy_worker_pool_get_noshift(s, pool) == PoolStarted(s, pool)

vy_worker_pool_get(s, pool) ==
    LET t == PoolStarted(s, pool)
    IN IF t.idle_workers[pool] = <<>> THEN t
       ELSE [t EXCEPT !.idle_workers[pool] = Tail(@)]

\* stailq_add_entry() adds at the head.
vy_worker_pool_put(s, w) ==
    [s EXCEPT !.idle_workers[w[1]] = <<w>> \o @]

\* ------------------------------------------------------------------------
\* The scheduler's functions that do not yield.
\* ------------------------------------------------------------------------
vy_scheduler_add_lsm(s, l) ==
    LET a == assert(s, ~s.in_dump[l] /\ ~s.in_compact[l], "add_lsm")
    IN [a EXCEPT !.in_dump[l] = TRUE, !.in_compact[l] = TRUE]

vy_scheduler_remove_lsm(s, l) ==
    LET a == assert(s, s.in_dump[l] /\ s.in_compact[l], "remove_lsm")
    IN [a EXCEPT !.in_dump[l] = FALSE, !.in_compact[l] = FALSE]

\* vy_scheduler_update_lsm() that does not exempt dropped trees.
vy_scheduler_update_lsm_any(s, l) ==
    assert(s, s.in_dump[l] /\ s.in_compact[l], "update_lsm")

\* The heaps are ordered by the trees' current fields, so an update moves
\* nothing in the model; a dropped tree must be in no heap.
vy_scheduler_update_lsm(s, l) ==
    IF is_dropped(s, l)
    THEN assert(s, ~s.in_dump[l] /\ ~s.in_compact[l], "update_lsm_dropped")
    ELSE assert(s, s.in_dump[l] /\ s.in_compact[l], "update_lsm")

vy_scheduler_pin_lsm(s, l) ==
    LET a == assert(s, ~s.is_dumping[l], "pin_lsm")
        b == [a EXCEPT !.pin_count[l] = @ + 1]
    IN IF s.pin_count[l] = 0 THEN vy_scheduler_update_lsm(b, l) ELSE b

vy_scheduler_unpin_lsm(s, l) ==
    LET a == assert(assert(s, ~s.is_dumping[l], "unpin_lsm_dumping"),
                    s.pin_count[l] > 0, "unpin_lsm_count")
        b == [a EXCEPT !.pin_count[l] = @ - 1]
    IN IF b.pin_count[l] = 0 THEN vy_scheduler_update_lsm(b, l) ELSE b

\* ev_monotonic_now(): the clock of the event loop, which is not behind the
\* generation and advances with it.
ev_monotonic_now(s) == s.generation + 1

\* trigger_dump() that does not look whether a round is in progress.
vy_scheduler_trigger_dump_anyway(s) ==
    IF s.checkpoint_in_progress THEN [s EXCEPT !.dump_pending = TRUE]
    ELSE signal_scheduler_cond(
            [s EXCEPT !.dump_start = ev_monotonic_now(s),
                      !.generation = @ + 1, !.dump_pending = FALSE])

\* trigger_dump() that a checkpoint does not hold off.
vy_scheduler_trigger_dump_unheld(s) ==
    IF vy_scheduler_dump_in_progress(s) THEN s
    ELSE signal_scheduler_cond(
            [s EXCEPT !.dump_start = ev_monotonic_now(s),
                      !.generation = @ + 1, !.dump_pending = FALSE])

\* trigger_dump() that looks at the checkpoint first.
vy_scheduler_trigger_dump_checkpoint_first(s) ==
    IF s.checkpoint_in_progress THEN [s EXCEPT !.dump_pending = TRUE]
    ELSE IF vy_scheduler_dump_in_progress(s) THEN s
    ELSE signal_scheduler_cond(
            [s EXCEPT !.dump_start = ev_monotonic_now(s),
                      !.generation = @ + 1, !.dump_pending = FALSE])

vy_scheduler_trigger_dump(s) ==
    IF vy_scheduler_dump_in_progress(s) THEN s
    ELSE IF s.checkpoint_in_progress THEN [s EXCEPT !.dump_pending = TRUE]
    ELSE signal_scheduler_cond(
            [s EXCEPT !.dump_start = ev_monotonic_now(s),
                      !.generation = @ + 1, !.dump_pending = FALSE])

vy_scheduler_force_compaction(s, l) ==
    signal_scheduler_cond(vy_scheduler_update_lsm(
        [s EXCEPT !.compact_priority[l] = 2], l))

\* scheduler->dump_complete_cb(), and the vylog records of a committed
\* transaction of vy_task_dump_complete().
dump_complete_cb(s) ==
    IF s.log.on THEN [s EXCEPT !.log.dump_complete_cb = @ + 1] ELSE s

vy_log_dump_lsm(s, l) ==
    IF s.log.on THEN [s EXCEPT !.log.dump_lsm[l] = @ + 1] ELSE s

vy_log_create_run(s, l) ==
    IF s.log.on THEN [s EXCEPT !.log.create_run[l] = @ + 1] ELSE s

\* vy_scheduler_complete_dump() that takes generation + 1 for the new round
\* of an empty heap.
vy_scheduler_complete_dump_off_by_one(s) ==
    LET pn == vy_dump_heap_top(s)
        min_generation == IF pn # NoLsm THEN vy_lsm_generation(s, pn)
                          ELSE s.generation + 1
    IN IF s.dump_task_count > 0 THEN s
       ELSE IF min_generation = s.dump_generation THEN s
       ELSE signal_dump_cond(dump_complete_cb(
                [s EXCEPT !.dump_start = ev_monotonic_now(s),
                          !.dump_generation = min_generation]))

\* vy_scheduler_complete_dump() that does not look at dump_task_count.
vy_scheduler_complete_dump_early(s) ==
    LET pn == vy_dump_heap_top(s)
        min_generation == IF pn # NoLsm THEN vy_lsm_generation(s, pn)
                          ELSE s.generation
    IN IF min_generation = s.dump_generation THEN s
       ELSE signal_dump_cond(dump_complete_cb(
                [s EXCEPT !.dump_start = ev_monotonic_now(s),
                          !.dump_generation = min_generation]))

vy_scheduler_complete_dump(s) ==
    LET a == assert(s, s.dump_generation < s.generation, "complete_dump")
        pn == vy_dump_heap_top(a)
        min_generation == IF pn # NoLsm THEN vy_lsm_generation(a, pn)
                          ELSE a.generation
    IN IF a.dump_task_count > 0 THEN a
       ELSE IF min_generation = a.dump_generation THEN a
       ELSE signal_dump_cond(dump_complete_cb(
                [a EXCEPT !.dump_start = ev_monotonic_now(a),
                          !.dump_generation = min_generation]))

\* ------------------------------------------------------------------------
\* The scheduler fiber.  sched.pc is where the fiber yielded:
\*   "wait"   in fiber_cond_wait(&scheduler->scheduler_cond)
\*   "loop"   runnable at the top of the loop of vy_scheduler_f (woken from
\*            "wait", or after fiber_reschedule())
\*   "sleep"  in fiber_sleep(scheduler->timeout)
\*   "dump_new", "compact_new"   in vy_run_prepare() of a task constructor
\*   "compact_split"             in vy_lsm_split_range/vy_lsm_coalesce_range
\*   "dump_complete", "compact_complete"  in the vylog commit of ->complete
\*   "dump_complete_discard"     in vy_run_discard() of an empty dumped run
\*   "dump_abort", "compact_abort"        in vy_run_discard() of ->abort
\* What the environment decides while the fiber runs comes in the record o:
\*   o.pick   the tree on top of the compact heap among equals
\*   o.prio   the compaction priority a range gets when it is recomputed
\*   o.split  whether the range to compact has to be split or coalesced
\*   o.fail   whether a task constructor fails before it yields
\*   o.pinned whether a sealed in-memory tree to dump has active writes
\* ------------------------------------------------------------------------
SchedLocals(pc) == [pc |-> pc, lsm |-> NoLsm, worker |-> NoWorker,
                    batch |-> <<>>, tasks_done |-> 0, tasks_failed |-> 0,
                    rc |-> 0]

InjectError(s) == [s EXCEPT !.errors_left = @ - 1]

\* vy_range_update_compact_priority(): the new priority is the LSM tree's
\* business.
SetPriority(s, l, prio) ==
    IF prio > 1 /\ s.compactions_left > 0
    THEN [s EXCEPT !.compact_priority[l] = prio,
                   !.compactions_left = @ - 1]
    ELSE [s EXCEPT !.compact_priority[l] = 1]

\* The error: label of vy_scheduler_f without the upper limit of the
\* timeout.
SchedulerError_unlimited(s) ==
    LET a == signal_dump_cond(s)
        t2 == a.timeout * 2
        t3 == IF t2 < VY_SCHEDULER_TIMEOUT_MIN
              THEN VY_SCHEDULER_TIMEOUT_MIN ELSE t2
    IN [a EXCEPT !.timeout = t3, !.is_throttled = TRUE,
                 !.backoffs = @ + 1,
                 !.sched = SchedLocals("sleep")]

\* The error: label of vy_scheduler_f, up to fiber_sleep().
SchedulerError(s) ==
    LET a == signal_dump_cond(s)
        t2 == a.timeout * 2
        t3 == IF t2 < VY_SCHEDULER_TIMEOUT_MIN
              THEN VY_SCHEDULER_TIMEOUT_MIN ELSE t2
        t4 == IF t3 > VY_SCHEDULER_TIMEOUT_MAX
              THEN VY_SCHEDULER_TIMEOUT_MAX ELSE t3
    IN [a EXCEPT !.timeout = t4, !.is_throttled = TRUE,
                 !.backoffs = @ + 1,
                 !.sched = SchedLocals("sleep")]

\* A task constructor failed: the worker goes back to its pool, vy_schedule
\* moves the error to scheduler->diag and returns -1, and the loop goes to
\* error.
ScheduleFailed(s, w) ==
    SchedulerError([vy_worker_pool_put(s, w) EXCEPT !.diag = TRUE])

\* Nothing to do or all workers are busy: wait for changes.
ScheduleNothing(s) == [s EXCEPT !.sched = SchedLocals("wait")]

\* Queue the task for execution and fiber_reschedule().
ScheduleTask(s, w) ==
    [s EXCEPT !.task[w].stage = "exec", !.sched = SchedLocals("loop")]

RECURSIVE vy_scheduler_f(_, _)
RECURSIVE ProcessTasks(_, _)
RECURSIVE TaskDone(_, _, _, _)
RECURSIVE vy_scheduler_peek_dump(_, _, _)
RECURSIVE vy_task_dump_new(_, _, _, _)
RECURSIVE vy_task_dump_new_unpinned(_, _, _, _)
RECURSIVE vy_scheduler_peek_compact(_, _, _)

\* vy_task_compact_new() up to its first yield.
vy_task_compact_new(s, o, w, l) ==
    LET a == assert(s, ~is_dropped(s, l) /\ s.range_in_heap[l]
                       /\ s.compact_priority[l] > 1, "compact_new")
    IN [a EXCEPT !.sched.pc = IF o.split THEN "compact_split"
                              ELSE "compact_new",
                 !.sched.lsm = l, !.sched.worker = w]

vy_scheduler_peek_compact(s, o, worker) ==
    LET pn == vy_compact_heap_top(s, o.pick)
    IN IF pn = NoLsm \/ vy_lsm_compact_priority(s, pn) <= 1
       THEN ScheduleNothing(IF worker # NoWorker
                            THEN vy_worker_pool_put(s, worker) ELSE s)
       ELSE LET g == IF worker = NoWorker
                     THEN vy_worker_pool_get(s, "compact") ELSE s
                w == IF worker = NoWorker
                     THEN vy_worker_pool_get_worker(s, "compact") ELSE worker
            IN IF w = NoWorker THEN ScheduleNothing(g)
               ELSE vy_task_compact_new(g, o, w, pn)

\* vy_task_dump_new() that has nothing to dump and leaves it at that,
\* without a call of vy_scheduler_complete_dump().
vy_task_dump_new_unpinned_incomplete(s, o, w, l) ==
    LET empty == {g \in s.mems[l] : /\ g # ActiveMem(s, l)
                                    /\ g <= s.dump_generation
                                    /\ g \notin s.data[l]}
        d == [s EXCEPT !.mems[l] = @ \ empty]
        todump == {g \in d.mems[l] : /\ g # ActiveMem(d, l)
                                     /\ g <= d.dump_generation}
    IN IF todump = {}
       THEN vy_scheduler_peek_dump(
                vy_scheduler_update_lsm(
                    [d EXCEPT !.sched.lsm = NoLsm,
                              !.sched.worker = NoWorker], l),
                o, w)
       ELSE [d EXCEPT !.sched.pc = "dump_new", !.sched.lsm = l,
                      !.sched.worker = w]

\* vy_task_dump_new() after vy_mem_wait_pinned(), up to the yield in
\* vy_run_prepare(): empty sealed trees are deleted; with nothing left to
\* dump there is no task and vy_scheduler_peek_dump() retries.
vy_task_dump_new_unpinned(s, o, w, l) ==
    LET empty == {g \in s.mems[l] : /\ g # ActiveMem(s, l)
                                    /\ g <= s.dump_generation
                                    /\ g \notin s.data[l]}
        d == [s EXCEPT !.mems[l] = @ \ empty]
        todump == {g \in d.mems[l] : /\ g # ActiveMem(d, l)
                                     /\ g <= d.dump_generation}
    IN IF todump = {}
       THEN vy_scheduler_peek_dump(
                vy_scheduler_complete_dump(vy_scheduler_update_lsm(
                    [d EXCEPT !.sched.lsm = NoLsm,
                              !.sched.worker = NoWorker], l)),
                o, w)
       ELSE [d EXCEPT !.sched.pc = "dump_new", !.sched.lsm = l,
                      !.sched.worker = w]

\* vy_task_dump_new() up to its first yield: in vy_mem_wait_pinned() if a
\* sealed tree to dump is pinned by a writer, else as above.
vy_task_dump_new(s, o, w, l) ==
    LET a == assert(s, ~is_dropped(s, l) /\ ~s.is_dumping[l]
                       /\ s.pin_count[l] = 0
                       /\ vy_lsm_generation(s, l) = s.dump_generation
                       /\ s.dump_generation < s.generation, "dump_new")
        r == IF ActiveMem(a, l) = a.dump_generation
             THEN vy_lsm_rotate_mem(a, l) ELSE a
        sealed == {g \in r.mems[l] : /\ g # ActiveMem(r, l)
                                     /\ g <= r.dump_generation}
    IN IF o.fail /\ a.errors_left > 0
       THEN ScheduleFailed(InjectError(a), w)
       ELSE IF o.pinned /\ sealed # {}
       THEN [r EXCEPT !.sched.pc = "dump_wait_pinned", !.sched.lsm = l,
                      !.sched.worker = w]
       ELSE vy_task_dump_new_unpinned(r, o, w, l)

\* vy_schedule() that looks for a compaction task only.
vy_scheduler_peek_dump_skipped(s, o, worker) ==
    vy_scheduler_peek_compact(IF worker # NoWorker
                              THEN vy_worker_pool_put(s, worker) ELSE s,
                              o, NoWorker)

\* vy_scheduler_peek_dump(), and vy_schedule() going on to
\* vy_scheduler_peek_compact() when it returned no task.
vy_scheduler_peek_dump(s, o, worker) ==
    LET pn == vy_dump_heap_top_among(s, o.pick)
        no_task(t) == vy_scheduler_peek_compact(
                        IF worker # NoWorker
                        THEN vy_worker_pool_put(t, worker) ELSE t,
                        o, NoWorker)
    IN IF ~vy_scheduler_dump_in_progress(s) THEN no_task(s)
       ELSE IF pn = NoLsm THEN no_task(vy_scheduler_complete_dump(s))
       ELSE IF /\ ~s.is_dumping[pn]
               /\ s.pin_count[pn] = 0
               /\ vy_lsm_generation(s, pn) = s.dump_generation
       THEN LET g == IF worker = NoWorker
                     THEN vy_worker_pool_get(s, "dump") ELSE s
                w == IF worker = NoWorker
                     THEN vy_worker_pool_get_worker(s, "dump") ELSE worker
            IN IF w = NoWorker
               THEN vy_scheduler_peek_compact(g, o, NoWorker)
               ELSE vy_task_dump_new(g, o, w, pn)
       ELSE no_task(assert(s, s.dump_task_count > 0, "peek_dump"))

\* vy_task_dump_new() after vy_run_prepare() returned, without the pin of
\* the primary index.
vy_task_dump_new_prepared_nopin(s, ok) ==
    LET l == s.sched.lsm
        w == s.sched.worker
        a == [s EXCEPT !.task[w] = [kind |-> "dump", lsm |-> l,
                                    stage |-> "new", is_failed |-> FALSE,
                                    created |-> 0, dropped |-> 0],
                       !.is_dumping[l] = TRUE]
        d == [vy_scheduler_update_lsm(a, l) EXCEPT !.dump_task_count = @ + 1]
    IN IF ~ok THEN ScheduleFailed(InjectError(s), w)
       ELSE ScheduleTask(d, w)

\* The loop of vy_write_iterator_new_mem(): every sealed in-memory tree
\* that is not newer than dump_generation is added to the write iterator.
vy_write_iterator_new_mem(s, l) ==
    IF s.log.on
    THEN [s EXCEPT !.log.wi[l] = {g \in s.mems[l] :
                                    /\ g # ActiveMem(s, l)
                                    /\ g <= s.dump_generation}]
    ELSE s

\* vy_task_dump_complete() that deletes every sealed in-memory tree.
vy_task_dump_complete_all_sealed(s, w) ==
    LET l == s.task[w].lsm
        kept == {ActiveMem(s, l)}
        a == [s EXCEPT !.mems[l] = kept, !.data[l] = @ \cap kept,
                       !.is_dumping[l] = FALSE]
        b == vy_scheduler_update_lsm(a, l)
        c == IF index_id(l) # 0 THEN vy_scheduler_unpin_lsm(b, pk(l)) ELSE b
        d == assert(c, c.dump_task_count > 0, "dump_complete_count")
    IN vy_scheduler_complete_dump([d EXCEPT !.dump_task_count = @ - 1])

\* vy_task_dump_new() after vy_run_prepare() returned.
vy_task_dump_new_prepared(s, ok) ==
    LET l == s.sched.lsm
        w == s.sched.worker
        a == [vy_write_iterator_new_mem(s, l) EXCEPT
                       !.task[w] = [kind |-> "dump", lsm |-> l,
                                    stage |-> "new", is_failed |-> FALSE,
                                    created |-> 0, dropped |-> 0],
                       !.is_dumping[l] = TRUE]
        b == vy_scheduler_update_lsm(a, l)
        c == IF index_id(l) # 0 THEN vy_scheduler_pin_lsm(b, pk(l)) ELSE b
        d == [c EXCEPT !.dump_task_count = @ + 1]
    IN IF ~ok THEN ScheduleFailed(InjectError(s), w)
       ELSE ScheduleTask(d, w)

\* vy_task_compact_new() after vy_run_prepare() returned.
vy_task_compact_new_prepared(s, ok) ==
    LET l == s.sched.lsm
        w == s.sched.worker
        a == [s EXCEPT !.task[w] = [kind |-> "compact", lsm |-> l,
                                    stage |-> "new", is_failed |-> FALSE,
                                    created |-> 0, dropped |-> 0],
                       !.range_in_heap[l] = FALSE]
    IN IF ~ok THEN ScheduleFailed(InjectError(s), w)
       ELSE ScheduleTask(vy_scheduler_update_lsm(a, l), w)

\* What the call task->wi->iface->close(wi) at err_wi_sub can do while
\* task->wi is still the NULL of calloc(): end the process, or be passed
\* over.
ErrWiSubOutcomes == {"crash", "skip"}

\* vy_task_dump_new() when vy_write_iterator_new_mem() fails: err_wi_sub
\* and what follows it: vy_run_discard(), which logs drop-run,
\* vy_task_delete() and return -1.
vy_task_dump_new_err_wi_sub(s, u) ==
    LET w == s.sched.worker
        a == [s EXCEPT !.log.wi_unclosed = @ + 1,
                       !.deleted_task = [kind |-> "dump", created |-> 0,
                                         dropped |-> 1]]
    IN IF u = "crash" THEN [s EXCEPT !.sched.pc = "crashed"]
       ELSE ScheduleFailed(InjectError(a), w)

\* vy_task_compact_new() when vy_write_iterator_new_slice() fails.
vy_task_compact_new_err_wi_sub(s, u) ==
    LET w == s.sched.worker
        a == [s EXCEPT !.log.wi_unclosed = @ + 1,
                       !.deleted_task = [kind |-> "compact", created |-> 0,
                                         dropped |-> 1]]
    IN IF u = "crash" THEN [s EXCEPT !.sched.pc = "crashed"]
       ELSE ScheduleFailed(InjectError(a), w)

\* vy_task_compact_new() after the range was split or coalesced: it returns
\* no task and vy_scheduler_peek_compact() retries.
vy_task_compact_new_split(s, o) ==
    LET l == s.sched.lsm
        w == s.sched.worker
        a == vy_scheduler_update_lsm(SetPriority(s, l, o.prio), l)
    IN vy_scheduler_peek_compact([a EXCEPT !.sched.lsm = NoLsm,
                                           !.sched.worker = NoWorker], o, w)

\* ->abort up to the yield in vy_run_discard(), which logs drop-run.
TaskAbort(s, w, rc) ==
    LET t == s.task[w]
        a == IF t.kind = "dump"
             THEN assert(s, s.is_dumping[t.lsm], "dump_abort")
             ELSE s
    IN [a EXCEPT !.task[w].dropped = @ + 1,
                 !.sched.pc = IF t.kind = "dump" THEN "dump_abort"
                              ELSE "compact_abort",
                 !.sched.lsm = t.lsm, !.sched.worker = w, !.sched.rc = rc]

\* vy_task_complete() that does not look whether the tree was dropped.
vy_task_complete_dropped(s, w) ==
    LET t == s.task[w]
    IN IF t.is_failed THEN TaskAbort(s, w, -1)
       ELSE [s EXCEPT !.sched.pc = IF t.kind = "dump" THEN "dump_complete"
                                   ELSE "compact_complete",
                      !.sched.lsm = t.lsm, !.sched.worker = w]

\* vy_task_complete() up to its first yield.
vy_task_complete(s, w) ==
    LET t == s.task[w]
    IN IF is_dropped(s, t.lsm) THEN TaskAbort(s, w, 0)
       ELSE IF t.is_failed THEN TaskAbort(s, w, -1)
       ELSE [s EXCEPT !.sched.pc = IF t.kind = "dump" THEN "dump_complete"
                                   ELSE "compact_complete",
                      !.sched.lsm = t.lsm, !.sched.worker = w]

\* vy_task_dump_abort() that leaves dump_task_count alone.
vy_task_dump_abort_nocount(s, w) ==
    LET l == s.task[w].lsm
        a == vy_scheduler_update_lsm([s EXCEPT !.is_dumping[l] = FALSE], l)
        b == IF index_id(l) # 0 THEN vy_scheduler_unpin_lsm(a, pk(l)) ELSE a
    IN IF is_dropped(b, l) THEN vy_scheduler_complete_dump(b) ELSE b

\* vy_task_dump_abort() that leaves the primary index pinned.
vy_task_dump_abort_pinned(s, w) ==
    LET l == s.task[w].lsm
        a == vy_scheduler_update_lsm([s EXCEPT !.is_dumping[l] = FALSE], l)
        c == assert(a, a.dump_task_count > 0, "dump_abort_count")
        d == [c EXCEPT !.dump_task_count = @ - 1]
    IN IF is_dropped(d, l) THEN vy_scheduler_complete_dump(d) ELSE d

\* The rest of vy_task_dump_abort().
vy_task_dump_abort(s, w) ==
    LET l == s.task[w].lsm
        a == vy_scheduler_update_lsm([s EXCEPT !.is_dumping[l] = FALSE], l)
        b == IF index_id(l) # 0 THEN vy_scheduler_unpin_lsm(a, pk(l)) ELSE a
        c == assert(b, b.dump_task_count > 0, "dump_abort_count")
        d == [c EXCEPT !.dump_task_count = @ - 1]
    IN IF is_dropped(d, l) THEN vy_scheduler_complete_dump(d) ELSE d

\* vy_task_dump_complete() from delete_mems on.
vy_task_dump_complete(s, w) ==
    LET l == s.task[w].lsm
        kept == {g \in s.mems[l] :
                    g = ActiveMem(s, l) \/ g > s.dump_generation}
        a == [s EXCEPT !.mems[l] = kept, !.data[l] = @ \cap kept,
                       !.is_dumping[l] = FALSE]
        b == vy_scheduler_update_lsm(a, l)
        c == IF index_id(l) # 0 THEN vy_scheduler_unpin_lsm(b, pk(l)) ELSE b
        d == assert(c, c.dump_task_count > 0, "dump_complete_count")
    IN vy_scheduler_complete_dump([d EXCEPT !.dump_task_count = @ - 1])

\* The rest of vy_task_compact_abort(), and of vy_task_compact_complete().
vy_task_compact_abort(s, w) ==
    LET l == s.task[w].lsm
        a == assert(s, ~s.range_in_heap[l], "compact_abort")
    IN vy_scheduler_update_lsm([a EXCEPT !.range_in_heap[l] = TRUE], l)

vy_task_compact_complete(s, o, w) ==
    LET l == s.task[w].lsm
        a == assert(s, ~s.range_in_heap[l], "compact_complete")
        b == SetPriority(a, l, o.prio)
    IN vy_scheduler_update_lsm([b EXCEPT !.range_in_heap[l] = TRUE], l)

\* vy_task_delete(): the worker's slot keeps what became of the task's run.
vy_task_delete(s, w) ==
    [s EXCEPT !.task[w] = NoTask,
              !.deleted_task = [kind |-> s.task[w].kind,
                                created |-> s.task[w].created,
                                dropped |-> s.task[w].dropped]]

\* The loop over the processed tasks in vy_scheduler_f, after ->abort or
\* ->complete returned: vy_task_complete() returns rc for the task of
\* worker w, having moved the error of a failed task to scheduler->diag.
TaskDone(s, o, w, rc) ==
    LET a == [s EXCEPT !.diag = IF rc # 0 THEN TRUE ELSE @,
                       !.backoffs = IF rc = 0 THEN 0 ELSE @,
                       !.sched.tasks_failed = IF rc # 0 THEN @ + 1 ELSE @,
                       !.sched.tasks_done = IF rc = 0 THEN @ + 1 ELSE @,
                       !.sched.batch = Tail(@),
                       !.sched.lsm = NoLsm, !.sched.worker = NoWorker,
                       !.sched.rc = 0]
    IN ProcessTasks(vy_task_delete(vy_worker_pool_put(a, w), w), o)

ProcessTasks(s, o) ==
    IF s.sched.batch # <<>> THEN vy_task_complete(s, Head(s.sched.batch))
    ELSE IF s.sched.tasks_done > 0
    THEN vy_scheduler_f([s EXCEPT !.timeout = 0], o)
    ELSE IF s.sched.tasks_failed > 0 THEN SchedulerError(s)
    ELSE vy_scheduler_peek_dump(s, o, NoWorker)

\* One iteration of the loop of vy_scheduler_f from its top.
vy_scheduler_f(s, o) ==
    ProcessTasks([s EXCEPT !.sched = [SchedLocals("run") EXCEPT
                                        !.batch = s.processed_tasks],
                           !.processed_tasks = <<>>], o)

\* ->complete of a dump task after its vylog commit returned.
DumpCompleteCommitted(s, o, ok, run_is_empty) ==
    LET w == s.sched.worker
        l == s.sched.lsm
        a == vy_log_dump_lsm(s, l)
        b == vy_log_create_run(a, l)
    IN IF ~ok THEN TaskAbort(InjectError(s), w, -1)
       ELSE IF run_is_empty
       THEN [a EXCEPT !.task[w].dropped = @ + 1,
                      !.sched.pc = "dump_complete_discard"]
       ELSE TaskDone(vy_task_dump_complete(
                        SetPriority([b EXCEPT !.task[w].created = @ + 1],
                                    l, o.prio), w), o, w, 0)

\* ->complete of a compaction task after its vylog commit returned.
CompactCompleteCommitted(s, o, ok, run_is_empty) ==
    LET w == s.sched.worker
        a == IF run_is_empty THEN [s EXCEPT !.task[w].dropped = @ + 1]
             ELSE [vy_log_create_run(s, s.sched.lsm) EXCEPT
                        !.task[w].created = @ + 1]
    IN IF ~ok THEN TaskAbort(InjectError(s), w, -1)
       ELSE TaskDone(vy_task_compact_complete(a, o, w), o, w, 0)

\* ------------------------------------------------------------------------
\* The worker threads.
\* ------------------------------------------------------------------------
\* vy_task_execute_f() and vy_task_f(): the worker executes the task and
\* ships it back to tx on the complete route.
vy_task_f(s, w, ok) ==
    LET a == IF ok THEN s
             ELSE InjectError([s EXCEPT !.task[w].is_failed = TRUE])
    IN [a EXCEPT !.task[w].stage = "shipped"]

\* vy_task_complete_f() on tx.
vy_task_complete_f(s, w) ==
    signal_scheduler_cond(
        [s EXCEPT !.task[w].stage = "processed",
                  !.processed_tasks = Append(@, w)])

\* ------------------------------------------------------------------------
\* The blocking functions of the scheduler's interface, fiber by fiber.
\* fiber_pc of the checkpoint fiber: "idle", "refused" (begin_checkpoint
\* returned -1), "ended_pending" (end_checkpoint returned after it called
\* trigger_dump for the dump that was put off), "begun" (begin_checkpoint
\* returned 0), "wait"/"woken" (in wait_checkpoint), "ok"/"fail" (what
\* wait_checkpoint returned).  fiber_pc of a fiber calling dump(): "idle",
\* "ckpt_wait"/"ckpt_woken" (in the first loop), "round_wait"/"round_woken"
\* (in the second loop), "ok"/"fail" (what dump returned), "refused" (dump
\* returned -1 without having waited on dump_cond).
\* ------------------------------------------------------------------------
\* The loop "Wait for dump to complete" that does not look whether the
\* scheduler is throttled.
vy_scheduler_dump_wait_patient(s, f) ==
    IF vy_scheduler_dump_in_progress(s)
    THEN wait_dump_cond(s, f, "round_wait")
    ELSE [s EXCEPT !.fiber_pc[f] = "ok"]

\* The loop "Wait for dump to complete" of vy_scheduler_dump().
vy_scheduler_dump_wait(s, f) ==
    IF vy_scheduler_dump_in_progress(s)
    THEN IF s.is_throttled THEN [s EXCEPT !.fiber_pc[f] = "fail"]
         ELSE wait_dump_cond(s, f, "round_wait")
    ELSE [s EXCEPT !.fiber_pc[f] = "ok"]

\* vy_scheduler_dump() that does not wait for the end of a checkpoint.
vy_scheduler_dump_impatient(s, f) ==
    LET r == vy_scheduler_dump_wait(
                signal_scheduler_cond(
                    [s EXCEPT !.dump_start =
                                  IF vy_scheduler_dump_in_progress(s)
                                  THEN @ ELSE ev_monotonic_now(s),
                              !.generation = @ + 1]), f)
    IN IF r.fiber_pc[f] = "fail" /\ s.fiber_pc[f] # "ckpt_woken"
       THEN [r EXCEPT !.fiber_pc[f] = "refused"]
       ELSE r

vy_scheduler_dump(s, f) ==
    IF s.checkpoint_in_progress THEN wait_dump_cond(s, f, "ckpt_wait")
    ELSE LET r == vy_scheduler_dump_wait(
                    signal_scheduler_cond(
                        [s EXCEPT !.dump_start =
                                      IF vy_scheduler_dump_in_progress(s)
                                      THEN @ ELSE ev_monotonic_now(s),
                                  !.generation = @ + 1]), f)
         IN IF r.fiber_pc[f] = "fail" /\ s.fiber_pc[f] # "ckpt_woken"
            THEN [r EXCEPT !.fiber_pc[f] = "refused"]
            ELSE r

\* begin_checkpoint() that does not look whether the scheduler is throttled.
vy_scheduler_begin_checkpoint_throttled(s, f) ==
    LET a == assert(s, ~s.checkpoint_in_progress, "begin_checkpoint")
    IN signal_scheduler_cond(
            [a EXCEPT !.dump_start =
                          IF vy_scheduler_dump_in_progress(a) THEN @
                          ELSE ev_monotonic_now(a),
                      !.generation = @ + 1,
                      !.checkpoint_in_progress = TRUE,
                      !.ckpt_generation = a.generation + 1,
                      !.fiber_pc[f] = "begun"])

vy_scheduler_begin_checkpoint(s, f) ==
    LET a == assert(s, ~s.checkpoint_in_progress, "begin_checkpoint")
    IN IF a.is_throttled THEN [a EXCEPT !.fiber_pc[f] = "refused"]
       ELSE signal_scheduler_cond(
                [a EXCEPT !.dump_start =
                              IF vy_scheduler_dump_in_progress(a) THEN @
                              ELSE ev_monotonic_now(a),
                          !.generation = @ + 1,
                          !.checkpoint_in_progress = TRUE,
                          !.ckpt_generation = a.generation + 1,
                          !.fiber_pc[f] = "begun"])

\* vy_scheduler_wait_checkpoint() that does not wait for the round.
vy_scheduler_wait_checkpoint_loop_nowait(s, f) ==
    IF s.is_throttled THEN [s EXCEPT !.fiber_pc[f] = "fail"]
    ELSE [s EXCEPT !.fiber_pc[f] = "ok"]

\* The loop of vy_scheduler_wait_checkpoint().
vy_scheduler_wait_checkpoint_loop(s, f) ==
    IF vy_scheduler_dump_in_progress(s)
    THEN IF s.is_throttled THEN [s EXCEPT !.fiber_pc[f] = "fail"]
         ELSE wait_dump_cond(s, f, "wait")
    ELSE [s EXCEPT !.fiber_pc[f] = "ok"]

vy_scheduler_wait_checkpoint(s, f) ==
    IF ~s.checkpoint_in_progress THEN [s EXCEPT !.fiber_pc[f] = "ok"]
    ELSE vy_scheduler_wait_checkpoint_loop(s, f)

\* end_checkpoint() that triggers a dump whether one was put off or not.
vy_scheduler_end_checkpoint_eager(s, f) ==
    LET a == [s EXCEPT !.fiber_pc[f] = "idle", !.ckpt_generation = 0]
        b == [a EXCEPT !.checkpoint_in_progress = FALSE]
    IN IF ~s.checkpoint_in_progress THEN a
       ELSE vy_scheduler_trigger_dump(
                [b EXCEPT !.fiber_pc[f] = IF b.dump_pending
                                          THEN "ended_pending" ELSE "idle"])

\* end_checkpoint() that forgets the dump that was put off.
vy_scheduler_end_checkpoint_forgetful(s, f) ==
    [s EXCEPT !.fiber_pc[f] = IF s.checkpoint_in_progress /\ s.dump_pending
                              THEN "ended_pending" ELSE "idle",
              !.ckpt_generation = 0,
              !.checkpoint_in_progress = FALSE]

vy_scheduler_end_checkpoint(s, f) ==
    LET a == [s EXCEPT !.fiber_pc[f] = "idle", !.ckpt_generation = 0]
        b == [a EXCEPT !.checkpoint_in_progress = FALSE]
    IN IF ~s.checkpoint_in_progress THEN a
       ELSE IF b.dump_pending
       THEN vy_scheduler_trigger_dump(
                [b EXCEPT !.fiber_pc[f] = "ended_pending"])
       ELSE b

\* ------------------------------------------------------------------------
\* The LSM trees' side: index creation and drop, writes.
\* ------------------------------------------------------------------------
\* A new LSM tree has one empty in-memory tree of the current generation.
vy_lsm_new(s, l) ==
    vy_scheduler_add_lsm([s EXCEPT !.lsm_state[l] = "alive",
                                   !.mems[l] = {s.generation},
                                   !.data[l] = {}], l)

\* Dropping an index removes its LSM tree from the scheduler and marks it.
vy_lsm_drop(s, l) ==
    [vy_scheduler_remove_lsm(s, l) EXCEPT !.lsm_state[l] = "dropped"]

\* A statement is inserted into the active in-memory tree, which is rotated
\* first if it is not of the current generation.
vy_lsm_set(s, l) ==
    LET r == IF ActiveMem(s, l) # s.generation
             THEN vy_lsm_rotate_mem(s, l) ELSE s
    IN [r EXCEPT !.data[l] = @ \cup {ActiveMem(r, l)}]

\* ------------------------------------------------------------------------
\* The deferred DELETE channel of a compaction task of the primary index.
\*
\* dd holds the fields of the task and of its batches, and the two hops
\* of the worker's deferred_delete_route:
\*   pc          where the task fiber is: "start" (vy_task_f was started),
\*               "run" (in the loop of vy_task_write_run), "sleep_process"
\*               and "sleep_destroy" (in fiber_sleep(TIMEOUT_INFINITY) of
\*               process() and destroy()), "woken_process" and
\*               "woken_destroy" (made ready there, not yet run),
\*               "shipped" (the task was pushed on the complete route),
\*               "deleted" (vy_task_delete ran on tx)
\*   batch       count of task->deferred_delete_batch, 0 for NULL (a batch
\*               is allocated by the call that puts a statement into it)
\*   in_progress task->deferred_delete_in_progress
\*   tx_pipe     batches pushed to tx, vy_deferred_delete_batch_process_f
\*               not yet run
\*   worker_pipe batches on their way back,
\*               vy_deferred_delete_batch_free_f not yet run
\*               (each batch in it with dest, the worker whose
\*               worker_pipe route[0].pipe of its route is)
\*   worker      task->worker, the thread process() takes the statements'
\*               references on: the first compaction worker
\*   is_failed   task->is_failed
\*   diag        task->diag: 0 if empty, k for the error of the k-th batch
\*               tx failed to process, -1 for the error of execute
\*   tx_failures how many batches tx failed to process
\*   failed_count count of the first batch tx failed to process, 0 if none
\*   fate        what vy_task_complete did on tx: "completed", "aborted"
\*   cancelled   the task fiber was cancelled
\*   rc          the value vy_task_write_run returns
\*   pk_dropped  pk->is_dropped
\*   refused     statements passed to calls of process() that returned -1
\*   unhandled   statements taken by process(), batch_process_f not yet
\*               run on them
\*   unfreed     statements taken by process(), batch_free_f not yet run
\*               on them
\*   asserts     assertions of the code that were found false
\* ------------------------------------------------------------------------
DdWorkers == {w \in Workers : w[1] = "compact"}
DdInit == [pc |-> "start", batch |-> 0, in_progress |-> 0,
           tx_pipe |-> <<>>, worker_pipe |-> <<>>,
           worker |-> <<"compact", 0>>,
           is_failed |-> FALSE, cancelled |-> FALSE, rc |-> 0,
           diag |-> 0, tx_failures |-> 0, failed_count |-> 0,
           fate |-> "none",
           pk_dropped |-> FALSE, errors_left |-> MaxErrors,
           refused |-> 0, unhandled |-> 0, unfreed |-> 0, asserts |-> {},
           tx |-> "run", cord |-> "loop"]

dd_assert(d, cond, name) ==
    IF cond THEN d ELSE [d EXCEPT !.asserts = @ \cup {name}]

\* fiber_wakeup(task->fiber): a fiber that sleeps becomes ready.
fiber_wakeup(d) ==
    [d EXCEPT !.pc = CASE @ = "sleep_process" -> "woken_process"
                       [] @ = "sleep_destroy" -> "woken_destroy"
                       [] OTHER -> @]

\* fiber_cancel(task->fiber) sets the flag and wakes the fiber up.
fiber_cancel(d) == fiber_wakeup([d EXCEPT !.cancelled = TRUE])

\* route[0].pipe of the deferred_delete_route of worker w leads to another
\* worker's thread.
deferred_delete_route_pipe_other(w) == CHOOSE v \in DdWorkers : v # w

\* route[0].pipe of the deferred_delete_route of worker w: the pipe from tx
\* to the thread of w.
deferred_delete_route_pipe(w) == w

\* The first hop, on tx.  ok: txn_begin, every
\* vy_deferred_delete_process_one and txn_commit succeed.
vy_deferred_delete_batch_process_f(d, ok) ==
    LET batch == Head(d.tx_pipe)
        fail == ~d.pk_dropped /\ ~ok
    IN  [d EXCEPT !.tx_pipe = Tail(@),
                  !.worker_pipe =
                      Append(@, [count |-> batch.count, is_failed |-> fail,
                                 diag |-> IF fail THEN d.tx_failures + 1
                                          ELSE 0,
                                 dest |-> deferred_delete_route_pipe(
                                              batch.route)]),
                  !.unhandled = @ - batch.count,
                  !.tx_failures = IF fail THEN @ + 1 ELSE @,
                  !.failed_count = IF fail /\ @ = 0 THEN batch.count ELSE @]

\* The second hop, on the worker thread.
vy_deferred_delete_batch_free_f(d) ==
    LET batch == Head(d.worker_pipe)
        freed == [d EXCEPT !.worker_pipe = Tail(@),
                           !.unfreed = @ - batch.count]
        aborted == IF batch.is_failed /\ ~freed.is_failed
                   THEN fiber_cancel([freed EXCEPT !.is_failed = TRUE,
                                                   !.diag = batch.diag])
                   ELSE freed
        checked == dd_assert(aborted, aborted.in_progress > 0,
                             "free_in_progress")
        last == [checked EXCEPT !.in_progress = @ - 1]
    IN  IF last.in_progress = 0 THEN fiber_wakeup(last) ELSE last

vy_task_deferred_delete_flush(d) ==
    IF d.batch = 0
    THEN d
    ELSE [d EXCEPT !.batch = 0,
                   !.in_progress = @ + 1,
                   !.tx_pipe = Append(@, [count |-> d.batch,
                                          is_failed |-> FALSE,
                                          route |-> d.worker])]

\* process() past the throttling loop: the statement goes into the batch,
\* allocated on demand, and a full batch is flushed.
vy_task_deferred_delete_add(d, ok) ==
    IF d.batch = 0 /\ ~ok
    THEN [d EXCEPT !.pc = "process_failed", !.refused = @ + 1,
                   !.errors_left = @ - 1]
    ELSE LET checked == dd_assert(d, d.batch < VY_DEFERRED_DELETE_BATCH_MAX,
                                  "batch_count")
             added == [checked EXCEPT !.batch = @ + 1,
                                      !.unhandled = @ + 1,
                                      !.unfreed = @ + 1,
                                      !.pc = "run"]
         IN  IF added.batch = VY_DEFERRED_DELETE_BATCH_MAX
             THEN vy_task_deferred_delete_flush(added)
             ELSE added

\* process() without the throttling loop.
vy_task_deferred_delete_process_unthrottled(d, ok) ==
    vy_task_deferred_delete_add(d, ok)

\* process(), entered or resumed after fiber_sleep.  ok: malloc of a batch
\* succeeds.  The result is at "sleep_process" if the fiber sleeps, at
\* "run" if the call returned 0, at "process_failed" if it returned -1.
vy_task_deferred_delete_process(d, ok) ==
    IF d.in_progress >= MAX_IN_PROGRESS
    THEN [d EXCEPT !.pc = "sleep_process"]
    ELSE vy_task_deferred_delete_add(d, ok)

\* vy_task_f that takes the task's state from what execute returned alone.
vy_task_f_push_overwrite(d) ==
    [d EXCEPT !.is_failed = d.rc # 0,
              !.diag = IF d.rc # 0 THEN -1 ELSE 0,
              !.pc = "shipped"]

\* vy_task_f once vy_task_write_run returned: the task goes back to tx.
vy_task_f_push(d) ==
    [d EXCEPT !.is_failed = @ \/ d.rc # 0,
              !.diag = IF d.rc # 0 /\ ~d.is_failed THEN -1 ELSE @,
              !.pc = "shipped"]

\* destroy() that does not wait for the batches in flight.
vy_task_deferred_delete_destroy_nowait(d) ==
    vy_task_f_push(vy_task_deferred_delete_flush(d))

\* The loop of destroy(), entered or resumed after fiber_sleep; when it
\* ends, stop() and vy_task_write_run return without yielding.
vy_task_deferred_delete_destroy_wait(d) ==
    IF d.in_progress > 0
    THEN [d EXCEPT !.pc = "sleep_destroy"]
    ELSE vy_task_f_push(d)

vy_task_deferred_delete_destroy(d) ==
    vy_task_deferred_delete_destroy_wait(vy_task_deferred_delete_flush(d))

\* wi->iface->stop(wi) after the loop of vy_task_write_run calls destroy()
\* of the handler; rc is what the rest of vy_task_write_run returns.
vy_task_write_run_stop(d, rc) ==
    vy_task_deferred_delete_destroy([d EXCEPT !.rc = rc])

\* A call of process() made by wi->iface->next(): if it fails, next() fails
\* and the loop ends.
vy_task_write_run_process(d) ==
    IF d.pc = "process_failed" THEN vy_task_write_run_stop(d, -1) ELSE d

\* vy_task_complete() of the task on tx.  ok: task->ops->complete
\* succeeds.
vy_task_complete_deferred(d, ok) ==
    IF d.pk_dropped THEN [d EXCEPT !.fate = "aborted"]
    ELSE IF d.is_failed
    THEN [dd_assert(d, d.diag # 0, "complete_diag") EXCEPT !.fate = "aborted"]
    ELSE IF ~ok THEN [d EXCEPT !.fate = "aborted", !.errors_left = @ - 1]
    ELSE [d EXCEPT !.fate = "completed"]

\* vy_task_delete() of the task on tx.
vy_task_delete_deferred(d) ==
    LET a == dd_assert(d, d.batch = 0, "delete_batch")
        b == dd_assert(a, a.in_progress = 0, "delete_in_progress")
    IN  [b EXCEPT !.pc = "deleted"]

\* ------------------------------------------------------------------------
\* The ranges and slices of one LSM tree.
\*
\* lt holds, for each range, the list of its slices, newest first; a slice
\* is known by the id of its run and carries the sealed in-memory trees
\* whose statements are in the run. lt.dump and lt.compact are the tasks:
\*   pc          "none", "flight" (created, executed in a worker, shipped
\*               back), "log" (->complete yielded in vy_log_tx_commit),
\*               "unpin" (vy_task_compact_complete yielded in
\*               vy_slice_wait_pinned)
\*   run         the id of task->new_run
\*   mems        the sealed in-memory trees a dump task writes
\*   ranges      the ranges new_slices were allocated for
\*   range, first_slice, last_slice   as in struct vy_task
\*   new_slice   whether the new run of the compaction is not empty
\*   added       the slices added to the range since the compaction task
\*               was created, newest first
\*   older       the slices that were behind last_slice when it was created
\* ------------------------------------------------------------------------
Ranges == 1..RangeCount
NoDumpTask == [pc |-> "none", run |-> 0, mems |-> {}, ranges |-> {}]
\* The runs of a range's slices as the first part of
\* vy_task_compact_complete() sees them: slices[i] is the run of the i-th
\* slice of the range, slice_count and compacted_slice_count are the fields
\* of each run, the task compacted the slices from first to last, and
\* unused_runs is the list it builds.
RunIds == 1..MaxRunIds
NoUnused == [slices |-> <<>>, first |-> 0, last |-> 0,
             slice_count |-> [run \in RunIds |-> 0],
             compacted_slice_count |-> [run \in RunIds |-> 0],
             unused_runs |-> <<>>, drop_run |-> <<>>]

\* The loop that counts the compacted slices of each run, from slice i on.
RECURSIVE vy_task_compact_complete_count(_, _)
vy_task_compact_complete_count(u, i) ==
    LET a == [u EXCEPT !.compacted_slice_count[u.slices[i]] = @ + 1]
    IN IF i = u.last THEN a ELSE vy_task_compact_complete_count(a, i + 1)

\* The loop that builds unused_runs, without the reset of the counter.
RECURSIVE vy_task_compact_complete_unused_noreset(_, _)
vy_task_compact_complete_unused_noreset(u, i) ==
    LET run == u.slices[i]
        a == IF u.compacted_slice_count[run] = u.slice_count[run]
             THEN [u EXCEPT !.unused_runs = <<run>> \o @] ELSE u
    IN IF i = u.last THEN a
       ELSE vy_task_compact_complete_unused_noreset(a, i + 1)

\* The loop that builds unused_runs, from slice i on: rlist_add_entry()
\* adds at the head.
RECURSIVE vy_task_compact_complete_unused(_, _)
vy_task_compact_complete_unused(u, i) ==
    LET run == u.slices[i]
        a == IF u.compacted_slice_count[run] = u.slice_count[run]
             THEN [u EXCEPT !.unused_runs = <<run>> \o @] ELSE u
        b == [a EXCEPT !.compacted_slice_count[run] = 0]
    IN IF i = u.last THEN b ELSE vy_task_compact_complete_unused(b, i + 1)

\* vy_task_compact_complete() up to the vylog transaction, which gets a
\* drop-run record for each run of unused_runs.
vy_task_compact_complete_runs(u) ==
    LET a == vy_task_compact_complete_count(u, u.first)
        b == vy_task_compact_complete_unused(a, a.first)
    IN [b EXCEPT !.drop_run = b.unused_runs]

\* The compaction tasks, one for each worker of the compact pool that takes
\* part; wi is what the task's write iterator reads, the slices from
\* first_slice to last_slice.
CompactSlots == 1..CompactWorkers
NoCompactTask == [pc |-> "none", run |-> 0, range |-> 0, first_slice |-> 0,
                  last_slice |-> 0, new_slice |-> FALSE, added |-> <<>>,
                  older |-> <<>>, wi |-> <<>>]
LtInit == [slices |-> [r \in Ranges |-> <<>>], sealed |-> {},
           next_id |-> 1, next_mem |-> 1,
           dump |-> NoDumpTask,
           compact |-> [k \in CompactSlots |-> NoCompactTask],
           range_heap |-> Ranges, asserts |-> {}, unused |-> NoUnused]

Runs(sl) == {sl[i].run : i \in DOMAIN sl}
SliceIndex(sl, run) == CHOOSE i \in DOMAIN sl : sl[i].run = run
SliceMems(sl) == UNION {sl[i].mems : i \in DOMAIN sl}

\* vy_range_add_slice(): the slice becomes the first, the newest, of the
\* range.
vy_range_add_slice(sl, slice) == <<slice>> \o sl

\* vy_range_add_slice_before(): the slice is put right before next_slice.
vy_range_add_slice_before(sl, slice, next_run) ==
    LET i == SliceIndex(sl, next_run)
    IN SubSeq(sl, 1, i - 1) \o <<slice>> \o SubSeq(sl, i, Len(sl))

vy_range_remove_slice(sl, run) ==
    LET i == SliceIndex(sl, run)
    IN SubSeq(sl, 1, i - 1) \o SubSeq(sl, i + 1, Len(sl))

\* rlist_next_entry(slice, in_range): 0 stands for the head of the list,
\* which follows the last slice.
NextSlice(sl, run) ==
    LET i == SliceIndex(sl, run)
    IN IF i < Len(sl) THEN sl[i + 1].run ELSE 0

\* The loop of vy_task_compact_complete() that removes the slices from
\* slice to last_slice from the range.
RECURSIVE RemoveCompacted(_, _, _)
RemoveCompacted(sl, run, last_run) ==
    LET next_run == NextSlice(sl, run)
        removed == vy_range_remove_slice(sl, run)
    IN IF run = last_run \/ next_run = 0 THEN removed
       ELSE RemoveCompacted(removed, next_run, last_run)

\* vy_lsm_rotate_mem() after writes: one more sealed in-memory tree.
SealMem(t) ==
    [t EXCEPT !.sealed = @ \cup {t.next_mem}, !.next_mem = @ + 1]

\* vy_task_dump_new(): the task is to dump every sealed in-memory tree.
vy_task_dump_new_run(t) ==
    [t EXCEPT !.dump = [pc |-> "flight", run |-> t.next_id,
                        mems |-> t.sealed, ranges |-> {}],
              !.next_id = @ + 1]

\* vy_task_dump_complete() up to vy_log_tx_commit(): a slice is allocated
\* for each of the ranges the new run intersects, none if it is empty.
vy_task_dump_complete_log(t, ranges) ==
    [t EXCEPT !.dump.pc = "log", !.dump.ranges = ranges]

\* vy_task_dump_complete() that yields after it added the first slice.
vy_task_dump_complete_yielding(t, ok) ==
    LET slice == [run |-> t.dump.run, mems |-> t.dump.mems]
        r == IF t.dump.ranges = {} THEN 0
             ELSE CHOOSE x \in t.dump.ranges :
                    \A y \in t.dump.ranges : x <= y
    IN IF ~ok THEN [t EXCEPT !.dump = NoDumpTask]
       ELSE IF r = 0
       THEN [t EXCEPT !.sealed = @ \ t.dump.mems, !.dump = NoDumpTask]
       ELSE [t EXCEPT !.slices[r] = vy_range_add_slice(@, slice),
                      !.dump.pc = "attach"]

\* vy_task_dump_complete() after vy_log_tx_commit() returned: the slices
\* are added to the ranges and the dumped in-memory trees are deleted; if
\* the commit failed the task is aborted.
vy_task_dump_complete_attach(t, ok) ==
    LET slice == [run |-> t.dump.run, mems |-> t.dump.mems]
    IN IF ~ok THEN [t EXCEPT !.dump = NoDumpTask]
       ELSE [t EXCEPT
                !.slices = [r \in Ranges |->
                                IF r \in t.dump.ranges
                                THEN vy_range_add_slice(t.slices[r], slice)
                                ELSE t.slices[r]],
                !.compact = [k \in CompactSlots |->
                    LET c == t.compact[k]
                    IN IF /\ c.pc \in {"flight", "log"}
                          /\ c.range \in t.dump.ranges
                       THEN [c EXCEPT !.added = <<slice>> \o @] ELSE c],
                !.sealed = @ \ t.dump.mems,
                !.dump = NoDumpTask]

\* vy_task_compact_new() that leaves the range in the range heap.
vy_task_compact_new_run_kept(t, k, r, n) ==
    LET sl == t.slices[r]
    IN [t EXCEPT !.compact[k] = [pc |-> "flight", run |-> t.next_id,
                                 range |-> r, first_slice |-> sl[1].run,
                                 last_slice |-> sl[n].run,
                                 new_slice |-> FALSE, added |-> <<>>,
                                 older |-> SubSeq(sl, n + 1, Len(sl)),
                                 wi |-> SubSeq(sl, 1, n)],
                !.next_id = @ + 1]

\* vy_task_compact_new(): the task of worker k is to compact the n newest
\* slices of range r, a range of the range heap; it remembers the first and
\* the last of them and takes the range out of the heap.
vy_task_compact_new_run(t, k, r, n) ==
    LET sl == t.slices[r]
    IN [t EXCEPT !.compact[k] = [pc |-> "flight", run |-> t.next_id,
                                 range |-> r, first_slice |-> sl[1].run,
                                 last_slice |-> sl[n].run,
                                 new_slice |-> FALSE, added |-> <<>>,
                                 older |-> SubSeq(sl, n + 1, Len(sl)),
                                 wi |-> SubSeq(sl, 1, n)],
                !.range_heap = @ \ {r},
                !.next_id = @ + 1]

\* vy_task_compact_abort(): the range goes back to the range heap.
vy_task_compact_abort_range(t, k) ==
    LET r == t.compact[k].range
    IN [t EXCEPT !.asserts = IF r \in t.range_heap
                             THEN @ \cup {"compact_abort"} ELSE @,
                 !.range_heap = @ \cup {r},
                 !.compact[k] = NoCompactTask]

\* vy_task_compact_complete() up to vy_log_tx_commit(): a slice is
\* allocated unless the new run is empty.
vy_task_compact_complete_log(t, k, run_is_empty) ==
    [t EXCEPT !.compact[k].pc = "log",
              !.compact[k].new_slice = ~run_is_empty]

\* vy_task_compact_complete() that adds the new slice with
\* vy_range_add_slice().
vy_task_compact_complete_newest(t, k, ok) ==
    LET c == t.compact[k]
        sl == t.slices[c.range]
        i == SliceIndex(sl, c.first_slice)
        j == SliceIndex(sl, c.last_slice)
        slice == [run |-> c.run, mems |-> SliceMems(SubSeq(sl, i, j))]
        a == IF c.new_slice THEN vy_range_add_slice(sl, slice) ELSE sl
    IN IF ~ok THEN vy_task_compact_abort_range(t, k)
       ELSE [t EXCEPT !.slices[c.range] =
                            RemoveCompacted(a, c.first_slice, c.last_slice),
                      !.compact[k].pc = "unpin"]

\* vy_task_compact_complete() after vy_log_tx_commit() returned, up to
\* vy_slice_wait_pinned(): the compacted slices are replaced by the new one.
vy_task_compact_complete_replace(t, k, ok) ==
    LET c == t.compact[k]
        sl == t.slices[c.range]
        i == SliceIndex(sl, c.first_slice)
        j == SliceIndex(sl, c.last_slice)
        slice == [run |-> c.run, mems |-> SliceMems(SubSeq(sl, i, j))]
        a == IF c.new_slice
             THEN vy_range_add_slice_before(sl, slice, c.first_slice)
             ELSE sl
    IN IF ~ok THEN vy_task_compact_abort_range(t, k)
       ELSE [t EXCEPT !.slices[c.range] =
                            RemoveCompacted(a, c.first_slice, c.last_slice),
                      !.compact[k].pc = "unpin"]

\* The rest of vy_task_compact_complete(): the range goes back to the
\* range heap.
vy_task_compact_complete_end(t, k) ==
    LET r == t.compact[k].range
    IN [t EXCEPT !.asserts = IF r \in t.range_heap
                             THEN @ \cup {"compact_complete"} ELSE @,
                 !.range_heap = @ \cup {r},
                 !.compact[k] = NoCompactTask]

\* ------------------------------------------------------------------------
\* The specification.
\* ------------------------------------------------------------------------
\* The trees of the set alive are there from the start, the other indexes of
\* the first space may be created later, a second space is there from the
\* start or never; the fibers of the set fibers call the scheduler; the
\* vylog and dump_complete_cb keep count or not.
InitTrees(wt, calls, errors, compactions, alive, fibers, counting) ==
    /\ write_threads = wt
    /\ generation = 0
    /\ dump_generation = 0
    /\ dump_task_count = 0
    /\ checkpoint_in_progress = FALSE
    /\ dump_pending = FALSE
    /\ is_throttled = FALSE
    /\ timeout = 0
    /\ processed_tasks = <<>>
    /\ idle_workers = [pool \in Pools |-> <<>>]
    /\ pool_started = [pool \in Pools |-> FALSE]
    /\ dump_cond = <<>>
    /\ lsm_state = [l \in Lsms |-> IF l \in alive THEN "alive"
                                   ELSE IF l = "Q" THEN "absent"
                                   ELSE "unborn"]
    /\ in_dump = [l \in Lsms |-> l \in alive]
    /\ in_compact = [l \in Lsms |-> l \in alive]
    /\ is_dumping = [l \in Lsms |-> FALSE]
    /\ pin_count = [l \in Lsms |-> 0]
    /\ mems = [l \in Lsms |-> {0}]
    /\ data = [l \in Lsms |-> {}]
    /\ compact_priority = [l \in Lsms |-> 1]
    /\ range_in_heap = [l \in Lsms |-> TRUE]
    /\ task = [w \in Workers |-> NoTask]
    /\ sched = SchedLocals("wait")
    /\ fiber_pc = [f \in Fibers |-> IF f \in fibers THEN "idle"
                                    ELSE "absent"]
    /\ ckpt_generation = 0
    /\ errors_left = errors
    /\ compactions_left = compactions
    /\ calls_left = calls
    /\ deleted_task = [kind |-> "none", created |-> 0, dropped |-> 0]
    /\ failed_asserts = {}
    /\ dump_start = 0
    /\ diag = FALSE
    /\ backoffs = 0
    /\ log = [on |-> counting, dump_lsm |-> [l \in Lsms |-> 0],
              create_run |-> [l \in Lsms |-> 0], dump_complete_cb |-> 0,
              wi |-> [l \in Lsms |-> {}], wi_unclosed |-> 0]
    /\ dd = DdInit
    /\ lt = LtInit

InitAll(wt, calls, errors, compactions) ==
    InitTrees(wt, calls, errors, compactions, {"P", "S1"}, {"ckpt", "d1"},
              FALSE)

InitWith(wt, calls) == InitAll(wt, calls, MaxErrors, MaxCompactions)

Init == InitWith(WriteThreads, MaxCalls)
InitFew == InitWith(FewWriteThreads, MaxCalls)

\* The choices that cannot matter in a state are not enumerated: no tree is
\* compacted while every priority is 1 and none can be raised, and the
\* compact heap has no equals unless two trees can need compaction.
NeedCompaction == {l \in Lsms : compact_priority[l] > 1}
MayCompact == compactions_left > 0 \/ NeedCompaction # {}
Oracles == [pick : IF Cardinality(NeedCompaction) + compactions_left > 1
                   THEN {l \in Lsms : lsm_state[l] # "absent"}
                   ELSE IF lsm_state["Q"] = "alive" THEN {"P", "Q"}
                   ELSE {"P"},
            prio : IF compactions_left > 0 THEN {1, 2} ELSE {1},
            split : IF MayCompact THEN BOOLEAN ELSE {FALSE},
            pinned : IF dump_generation < generation THEN BOOLEAN
                     ELSE {FALSE},
            fail : IF errors_left > 0 THEN BOOLEAN ELSE {FALSE}]
Outcomes == IF errors_left > 0 THEN BOOLEAN ELSE {TRUE}

\* The scheduler fiber, from each of its yields to the next.
SchedulerRun ==
    /\ sched.pc = "loop"
    /\ \E o \in Oracles : Commit(vy_scheduler_f(St, o))

SchedulerWakeUp ==
    /\ sched.pc = "sleep"
    /\ \E o \in Oracles :
        Commit(vy_scheduler_f([St EXCEPT !.is_throttled = FALSE], o))

DumpNewUnpinned ==
    /\ sched.pc = "dump_wait_pinned"
    /\ \E o \in Oracles :
        Commit(vy_task_dump_new_unpinned(St, o, sched.worker, sched.lsm))

DumpNewPrepared ==
    /\ sched.pc = "dump_new"
    /\ \E ok \in Outcomes : Commit(vy_task_dump_new_prepared(St, ok))

CompactNewPrepared ==
    /\ sched.pc = "compact_new"
    /\ \E ok \in Outcomes : Commit(vy_task_compact_new_prepared(St, ok))

CompactNewSplit ==
    /\ sched.pc = "compact_split"
    /\ \E o \in Oracles : Commit(vy_task_compact_new_split(St, o))

DumpComplete ==
    /\ sched.pc = "dump_complete"
    /\ \E o \in Oracles, ok \in Outcomes, run_is_empty \in BOOLEAN :
        Commit(DumpCompleteCommitted(St, o, ok, run_is_empty))

DumpCompleteDiscarded ==
    /\ sched.pc = "dump_complete_discard"
    /\ \E o \in Oracles :
        Commit(TaskDone(vy_task_dump_complete(St, sched.worker), o,
                        sched.worker, 0))

DumpAbort ==
    /\ sched.pc = "dump_abort"
    /\ \E o \in Oracles :
        Commit(TaskDone(vy_task_dump_abort(St, sched.worker), o,
                        sched.worker, sched.rc))

CompactComplete ==
    /\ sched.pc = "compact_complete"
    /\ \E o \in Oracles, ok \in Outcomes, run_is_empty \in BOOLEAN :
        Commit(CompactCompleteCommitted(St, o, ok, run_is_empty))

CompactAbort ==
    /\ sched.pc = "compact_abort"
    /\ \E o \in Oracles :
        Commit(TaskDone(vy_task_compact_abort(St, sched.worker), o,
                        sched.worker, sched.rc))

\* The worker threads and the complete route.
WorkerExecute ==
    \E w \in Workers, ok \in Outcomes :
        /\ task[w].stage = "exec"
        /\ Commit(vy_task_f(St, w, ok))

TaskCompleteF ==
    \E w \in Workers :
        /\ task[w].stage = "shipped"
        /\ Commit(vy_task_complete_f(St, w))

\* The other fibers of tx.
Call(s) == [s EXCEPT !.calls_left = @ - 1]

TriggerDump ==
    /\ calls_left > 0
    /\ Commit(vy_scheduler_trigger_dump(Call(St)))

ForceCompaction ==
    \E l \in Lsms :
        /\ lsm_state[l] = "alive"
        /\ compactions_left > 0
        /\ Commit(vy_scheduler_force_compaction(
                    [St EXCEPT !.compactions_left = @ - 1], l))

Dump ==
    \E f \in DumpFibers :
        /\ fiber_pc[f] \in {"idle", "ok", "fail", "refused"}
        /\ calls_left > 0
        /\ Commit(vy_scheduler_dump(Call(St), f))

DumpResume ==
    \E f \in DumpFibers :
        \/ /\ fiber_pc[f] = "ckpt_woken"
           /\ Commit(vy_scheduler_dump(St, f))
        \/ /\ fiber_pc[f] = "round_woken"
           /\ Commit(vy_scheduler_dump_wait(St, f))

BeginCheckpoint ==
    /\ fiber_pc["ckpt"] \in {"idle", "refused", "ended_pending"}
    /\ calls_left > 0
    /\ Commit(vy_scheduler_begin_checkpoint(Call(St), "ckpt"))

WaitCheckpoint ==
    \/ /\ fiber_pc["ckpt"] = "begun"
       /\ Commit(vy_scheduler_wait_checkpoint(St, "ckpt"))
    \/ /\ fiber_pc["ckpt"] = "woken"
       /\ Commit(vy_scheduler_wait_checkpoint_loop(St, "ckpt"))

EndCheckpoint ==
    /\ fiber_pc["ckpt"] \in {"begun", "ok", "fail"}
    /\ Commit(vy_scheduler_end_checkpoint(St, "ckpt"))

AddLsm ==
    \E l \in Lsms :
        /\ lsm_state[l] = "unborn"
        /\ index_id(l) # 0 => lsm_state[pk(l)] = "alive"
        /\ calls_left > 0
        /\ Commit(vy_lsm_new(Call(St), l))

DropLsm ==
    \E l \in Lsms :
        /\ lsm_state[l] = "alive"
        /\ index_id(l) = 0 =>
                \A m \in Secondaries : pk(m) = l => lsm_state[m] # "alive"
        /\ calls_left > 0
        /\ Commit(vy_lsm_drop(Call(St), l))

Write ==
    \E l \in Lsms :
        /\ lsm_state[l] = "alive"
        /\ calls_left > 0
        /\ Commit(vy_lsm_set(Call(St), l))

Next ==
    \/ SchedulerRun \/ SchedulerWakeUp
    \/ DumpNewUnpinned \/ DumpNewPrepared \/ CompactNewPrepared \/ CompactNewSplit
    \/ DumpComplete \/ DumpCompleteDiscarded \/ DumpAbort
    \/ CompactComplete \/ CompactAbort
    \/ WorkerExecute \/ TaskCompleteF
    \/ TriggerDump \/ ForceCompaction \/ Dump \/ DumpResume
    \/ BeginCheckpoint \/ WaitCheckpoint \/ EndCheckpoint
    \/ AddLsm \/ DropLsm \/ Write

Spec == Init /\ [][Next]_vars
SpecFew == InitFew /\ [][Next]_vars

\* The scheduler fiber runs whenever it is runnable: the vylog write, the
\* back-off sleep and the wait for a pinned in-memory tree it yields in all
\* end.  A worker thread executes the task it was given and cbus delivers
\* the task back to tx.  The other fibers of tx owe the scheduler nothing.
\* The fairness of the scheduler fiber is WF_vars(SchedulerStep) written
\* out, with sched.pc # "wait" for ENABLED <<SchedulerStep>>_vars: the fiber
\* has a step to take exactly when it does not wait on scheduler_cond.
SchedulerStep ==
    \/ SchedulerRun \/ SchedulerWakeUp
    \/ DumpNewUnpinned \/ DumpNewPrepared \/ CompactNewPrepared
    \/ CompactNewSplit
    \/ DumpComplete \/ DumpCompleteDiscarded \/ DumpAbort
    \/ CompactComplete \/ CompactAbort
Fairness ==
    /\ \/ []<>(sched.pc = "wait")
       \/ []<><<SchedulerStep>>_vars
    /\ WF_vars(WorkerExecute)
    /\ WF_vars(TaskCompleteF)
InitFair == InitWith(FewWriteThreads, FairCalls)
FairSpec == InitFair /\ [][Next]_vars /\ Fairness

\* ------------------------------------------------------------------------
\* The deferred DELETE channel: the task fiber on the worker thread, the
\* two hops of a batch, and tx.  The scheduler's state is left alone.
\* ------------------------------------------------------------------------
DdOutcomes == IF dd.errors_left > 0 THEN BOOLEAN ELSE {TRUE}

\* vy_task_write_run up to the loop: a failure before wi->iface->start()
\* returned 0 leaves without calling stop().
vy_task_write_run_begin(d, ok) ==
    IF ok THEN [d EXCEPT !.pc = "run"]
    ELSE vy_task_f_push([d EXCEPT !.rc = -1])

WriteRunBegin ==
    /\ dd.pc = "start"
    /\ \E ok \in BOOLEAN : dd' = vy_task_write_run_begin(dd, ok)
    /\ UNCHANGED <<scheduler_vars, lt>>

\* wi->iface->next() calls process() for an overwritten statement.
DeferredDeleteProcess ==
    /\ dd.pc = "run"
    /\ \E ok \in DdOutcomes :
           dd' = vy_task_write_run_process(
                     vy_task_deferred_delete_process(dd, ok))
    /\ UNCHANGED <<scheduler_vars, lt>>

\* The task fiber runs again in the loop of process().
DeferredDeleteProcessResume ==
    /\ dd.pc = "woken_process"
    /\ \E ok \in DdOutcomes :
           dd' = vy_task_write_run_process(
                     vy_task_deferred_delete_process(dd, ok))
    /\ UNCHANGED <<scheduler_vars, lt>>

\* The loop of vy_task_write_run ends: the iterator is exhausted (rc = 0),
\* or next() or vy_run_writer_append_stmt failed, or the fiber was found
\* cancelled (rc = -1).
WriteRunStop ==
    /\ dd.pc = "run"
    /\ \E rc \in {0, -1} : dd' = vy_task_write_run_stop(dd, rc)
    /\ UNCHANGED <<scheduler_vars, lt>>

\* The task fiber runs again in the loop of destroy().
DeferredDeleteDestroyResume ==
    /\ dd.pc = "woken_destroy"
    /\ dd' = vy_task_deferred_delete_destroy_wait(dd)
    /\ UNCHANGED <<scheduler_vars, lt>>

BatchProcess ==
    /\ dd.tx_pipe # <<>>
    /\ \E ok \in IF dd.tx_failures < MaxBatchErrors THEN BOOLEAN ELSE {TRUE} :
           dd' = vy_deferred_delete_batch_process_f(dd, ok)
    /\ UNCHANGED <<scheduler_vars, lt>>

\* The worker thread runs the callback while the task fiber sleeps or has
\* yielded in the loop of vy_task_write_run.
BatchFree ==
    /\ dd.worker_pipe # <<>>
    /\ dd.pc \in {"run", "sleep_process", "woken_process",
                  "sleep_destroy", "woken_destroy"}
    /\ dd' = vy_deferred_delete_batch_free_f(dd)
    /\ UNCHANGED <<scheduler_vars, lt>>

\* The space is dropped while the task is in progress.
DropPrimary ==
    /\ ~dd.pk_dropped
    /\ dd.pc \notin {"start", "deleted"}
    /\ dd' = [dd EXCEPT !.pk_dropped = TRUE]
    /\ UNCHANGED <<scheduler_vars, lt>>

\* vy_scheduler_f completes or aborts the task and deletes it.
TaskDelete ==
    /\ dd.pc = "shipped"
    /\ \E ok \in DdOutcomes :
           dd' = vy_task_delete_deferred(vy_task_complete_deferred(dd, ok))
    /\ UNCHANGED <<scheduler_vars, lt>>

NextDD ==
    \/ WriteRunBegin \/ DeferredDeleteProcess \/ DeferredDeleteProcessResume
    \/ WriteRunStop \/ DeferredDeleteDestroyResume
    \/ BatchProcess \/ BatchFree \/ DropPrimary \/ TaskDelete

SpecDD == Init /\ [][NextDD]_vars

\* vy_worker_pool_stop() on tx for the worker of the task: cbus_stop_loop()
\* asks the worker's cbus_loop() to return, and cord_join() keeps the tx
\* thread until the worker thread has ended.
vy_worker_pool_stop(d) == [d EXCEPT !.tx = "join"]

\* vy_worker_f() once cbus_loop() returned, up to fiber_join(): a task
\* fiber that has not finished is cancelled and joined.
vy_worker_f(d) ==
    IF d.pc \notin {"shipped", "deleted"}
    THEN [fiber_cancel(d) EXCEPT !.cord = "join"]
    ELSE [d EXCEPT !.cord = "exit"]

\* vy_worker_f() from the return of fiber_join() to the end of the thread.
vy_worker_f_joined(d) == [d EXCEPT !.cord = "exit"]

\* cord_join() returns on tx.
cord_join(d) == [d EXCEPT !.tx = "done"]

\* tx stops the pool while the task is in progress.
WorkerPoolStop ==
    /\ dd.tx = "run"
    /\ dd.pc # "deleted"
    /\ dd' = vy_worker_pool_stop(dd)
    /\ UNCHANGED <<scheduler_vars, lt>>

\* The worker's cbus_loop() has run the callbacks of the messages sent
\* before the one that stops it, and returns.
WorkerLoopStop ==
    /\ dd.tx = "join" /\ dd.cord = "loop"
    /\ dd.worker_pipe = <<>>
    /\ dd' = vy_worker_f(dd)
    /\ UNCHANGED <<scheduler_vars, lt>>

\* The task fiber is dead: fiber_join() returns in the worker thread.
WorkerFiberJoined ==
    /\ dd.cord = "join"
    /\ dd.pc \in {"shipped", "deleted"}
    /\ dd' = vy_worker_f_joined(dd)
    /\ UNCHANGED <<scheduler_vars, lt>>

\* The worker thread has ended: cord_join() returns on tx.
WorkerCordJoined ==
    /\ dd.tx = "join" /\ dd.cord = "exit"
    /\ dd' = cord_join(dd)
    /\ UNCHANGED <<scheduler_vars, lt>>

\* The deferred DELETE channel with a pool that may be stopped: the tx
\* thread runs no callback while it is in cord_join(), and the worker
\* thread runs its callbacks in cbus_loop() only; the task fiber runs
\* while the worker thread is in cbus_loop() or in fiber_join(), and a
\* cancelled fiber that yielded in the loop of vy_task_write_run leaves
\* the loop.
NextStop ==
    \/ WriteRunBegin \/ DeferredDeleteProcessResume
    \/ ~dd.cancelled /\ DeferredDeleteProcess
    \/ WriteRunStop \/ DeferredDeleteDestroyResume
    \/ dd.tx = "run" /\ BatchProcess
    \/ dd.cord = "loop" /\ BatchFree
    \/ dd.tx = "run" /\ TaskDelete
    \/ WorkerPoolStop \/ WorkerLoopStop
    \/ WorkerFiberJoined \/ WorkerCordJoined

SpecStop == Init /\ [][NextStop]_vars

\* The scheduler with dump tasks only and as many failures as it takes the
\* timeout to reach its upper limit and stay there.
InitBackoff == InitAll(FewWriteThreads, BackoffCalls, MaxBackoffs, 0)
NextBackoff ==
    \/ SchedulerRun \/ SchedulerWakeUp
    \/ DumpNewUnpinned \/ DumpNewPrepared
    \/ DumpComplete \/ DumpCompleteDiscarded \/ DumpAbort
    \/ WorkerExecute \/ TaskCompleteF
    \/ TriggerDump \/ Write
SpecBackoff == InitBackoff /\ [][NextBackoff]_vars

\* Two spaces: the primary index of each is there from the start, trees are
\* written, dumped and dropped, and task constructors may fail.
InitSpaces == InitTrees(FewWriteThreads, SpacesCalls, MaxErrors, 0,
                        {"P", "Q"}, {"ckpt", "d1"}, FALSE)

NextSpaces ==
    \/ SchedulerRun \/ SchedulerWakeUp
    \/ DumpNewUnpinned \/ DumpNewPrepared
    \/ DumpComplete \/ DumpCompleteDiscarded \/ DumpAbort
    \/ WorkerExecute \/ TaskCompleteF
    \/ TriggerDump \/ Write \/ DropLsm

SpecSpaces == InitSpaces /\ [][NextSpaces]_vars

\* Several fibers wait for dump rounds: two fibers call dump() and one
\* makes checkpoints.
InitWaiters == InitTrees(FewWriteThreads, WaitersCalls, MaxErrors, 0,
                         {"P", "S1"}, Fibers, FALSE)

NextWaiters ==
    \/ SchedulerRun \/ SchedulerWakeUp
    \/ DumpNewUnpinned \/ DumpNewPrepared
    \/ DumpComplete \/ DumpCompleteDiscarded \/ DumpAbort
    \/ WorkerExecute \/ TaskCompleteF
    \/ Dump \/ DumpResume
    \/ BeginCheckpoint \/ WaitCheckpoint \/ EndCheckpoint
    \/ Write

SpecWaiters == InitWaiters /\ [][NextWaiters]_vars

\* Dumps whose vylog records and dump_complete_cb calls are counted.
InitLog == InitTrees(FewWriteThreads, LogCalls, MaxErrors, 0,
                     {"P", "S1"}, {"ckpt", "d1"}, TRUE)

SpecLog == InitLog /\ [][NextBackoff]_vars

\* The task constructors with a source that the write iterator refuses:
\* two trees of one space, trigger_dump(), forced compaction and writes.
\* Nothing runs once the process has ended.
DumpNewSourceFails ==
    /\ sched.pc = "dump_new"
    /\ errors_left > 0
    /\ \E u \in ErrWiSubOutcomes :
        Commit(vy_task_dump_new_err_wi_sub(St, u))

CompactNewSourceFails ==
    /\ sched.pc = "compact_new"
    /\ errors_left > 0
    /\ \E u \in ErrWiSubOutcomes :
        Commit(vy_task_compact_new_err_wi_sub(St, u))

InitNew == InitTrees(FewWriteThreads, NewCalls, MaxErrors, MaxCompactions,
                     {"P", "S1"}, {}, FALSE)
NextNew ==
    \/ SchedulerRun \/ SchedulerWakeUp
    \/ DumpNewUnpinned \/ DumpNewPrepared \/ DumpNewSourceFails
    \/ CompactNewPrepared \/ CompactNewSplit \/ CompactNewSourceFails
    \/ DumpComplete \/ DumpCompleteDiscarded \/ DumpAbort
    \/ CompactComplete \/ CompactAbort
    \/ sched.pc # "crashed" /\ WorkerExecute
    \/ sched.pc # "crashed" /\ TaskCompleteF
    \/ sched.pc # "crashed" /\ TriggerDump
    \/ sched.pc # "crashed" /\ ForceCompaction
    \/ sched.pc # "crashed" /\ Write
SpecNew == InitNew /\ [][NextNew]_vars

\* Dump tasks of one tree in flight while it is written and rotated and
\* rounds are asked for by trigger_dump, dump() and checkpoints; the in-memory trees
\* given to the write iterator are recorded.
InitMems == InitTrees(FewWriteThreads, MemsCalls, MaxErrors, 0,
                      {"P"}, {"ckpt", "d1"}, TRUE)
NextMems == NextWaiters \/ TriggerDump
SpecMems == InitMems /\ [][NextMems]_vars

\* The scheduler with dump tasks only: the trees of one space with their
\* creation and drop, trigger_dump(), dump(), the checkpoint functions,
\* writes and failures, with eight write threads and with two.
InitDump == InitAll(WriteThreads, MaxCalls, MaxErrors, 0)
NextDump == NextMems \/ DropLsm \/ AddLsm
SpecDump == InitDump /\ [][NextDump]_vars
InitFewDump == InitAll(FewWriteThreads, MaxCalls, MaxErrors, 0)
SpecFewDump == InitFewDump /\ [][NextDump]_vars

\* One LSM tree with two ranges: in-memory trees are sealed and dumped, the
\* newest slices of a range are compacted, a dump and a compaction may be
\* in flight together; the commit of the vylog transaction of ->complete
\* may fail.
SealMemory ==
    /\ lt.next_mem <= MaxMems
    /\ lt' = SealMem(lt)
    /\ UNCHANGED <<scheduler_vars, dd>>

DumpNewRun ==
    /\ lt.dump.pc = "none" /\ lt.sealed # {} /\ lt.next_id <= MaxRuns
    /\ lt' = vy_task_dump_new_run(lt)
    /\ UNCHANGED <<scheduler_vars, dd>>

DumpCompleteLog ==
    /\ lt.dump.pc = "flight"
    /\ \E lo \in Ranges, hi \in Ranges, run_is_empty \in BOOLEAN :
        /\ lo <= hi
        /\ lt' = vy_task_dump_complete_log(
                    lt, IF run_is_empty THEN {} ELSE lo..hi)
    /\ UNCHANGED <<scheduler_vars, dd>>

DumpCompleteAttach ==
    /\ lt.dump.pc = "log"
    /\ \E ok \in BOOLEAN : lt' = vy_task_dump_complete_attach(lt, ok)
    /\ UNCHANGED <<scheduler_vars, dd>>

CompactNewRun ==
    /\ lt.next_id <= MaxRuns
    /\ \E k \in CompactSlots, r \in lt.range_heap :
        /\ lt.compact[k].pc = "none"
        /\ \A j \in 1..(k - 1) : lt.compact[j].pc # "none"
        /\ \E n \in 1..Len(lt.slices[r]) :
                lt' = vy_task_compact_new_run(lt, k, r, n)
    /\ UNCHANGED <<scheduler_vars, dd>>

CompactCompleteLog ==
    /\ \E k \in CompactSlots, run_is_empty \in BOOLEAN :
        /\ lt.compact[k].pc = "flight"
        /\ lt' = vy_task_compact_complete_log(lt, k, run_is_empty)
    /\ UNCHANGED <<scheduler_vars, dd>>

CompactCompleteReplace ==
    /\ \E k \in CompactSlots, ok \in BOOLEAN :
        /\ lt.compact[k].pc = "log"
        /\ lt' = vy_task_compact_complete_replace(lt, k, ok)
    /\ UNCHANGED <<scheduler_vars, dd>>

CompactCompleteEnd ==
    /\ \E k \in CompactSlots :
        /\ lt.compact[k].pc = "unpin"
        /\ lt' = vy_task_compact_complete_end(lt, k)
    /\ UNCHANGED <<scheduler_vars, dd>>

\* The first part of vy_task_compact_complete() for a range with up to
\* MaxSlices slices of up to MaxRunIds runs, each of which may have up to
\* MaxOtherSlices slices in other ranges.
CompactCompleteRuns ==
    /\ lt.unused = NoUnused
    /\ \E n \in 1..MaxSlices :
        \E slices \in [1..n -> RunIds], first \in 1..n, last \in 1..n,
           others \in [RunIds -> 0..MaxOtherSlices] :
            /\ first <= last
            /\ lt' = [lt EXCEPT !.unused =
                        vy_task_compact_complete_runs(
                            [NoUnused EXCEPT
                                !.slices = slices,
                                !.first = first, !.last = last,
                                !.slice_count = [run \in RunIds |->
                                    IF \E i \in 1..n : slices[i] = run
                                    THEN others[run] + Cardinality(
                                            {i \in 1..n : slices[i] = run})
                                    ELSE 0]])]
    /\ UNCHANGED <<scheduler_vars, dd>>

SpecRuns == Init /\ [][CompactCompleteRuns]_vars

NextSlices ==
    \/ SealMemory
    \/ DumpNewRun \/ DumpCompleteLog \/ DumpCompleteAttach
    \/ CompactNewRun \/ CompactCompleteLog \/ CompactCompleteReplace
    \/ CompactCompleteEnd

SpecSlices == Init /\ [][NextSlices]_vars

\* ------------------------------------------------------------------------
\* The properties.
\* ------------------------------------------------------------------------
Alive == {l \in Lsms : lsm_state[l] = "alive"}
TasksOf(kind) == {w \in Workers : task[w].kind = kind}
IdleSet(pool) == {idle_workers[pool][i] : i \in DOMAIN idle_workers[pool]}
\* The trees vy_scheduler_peek_dump() would make a dump task for.
Eligible == {l \in Lsms : /\ in_dump[l] /\ ~is_dumping[l] /\ pin_count[l] = 0
                          /\ vy_lsm_generation(St, l) = dump_generation
                          /\ dump_generation < generation}
RunCreated == deleted_task.kind = "dump" /\ deleted_task.created = 1

\* C1: while the primary index is being dumped, no secondary index of its
\* space is being dumped and none that is not dropped still has the
\* generation of the round: the secondary indexes of the round were dumped,
\* or found empty, before the primary index started.
C1_PrimaryDumpsLast ==
    is_dumping["P"] =>
        \A m \in Secondaries :
            /\ ~is_dumping[m]
            /\ m \in Alive => vy_lsm_generation(St, m) > dump_generation

\* The primary index is being dumped in the first round after the dump of
\* a secondary index made a run in it.
C1_Witness ==
    /\ is_dumping["P"] /\ dump_generation = 0 /\ RunCreated
    /\ \E m \in Secondaries \cap Alive : vy_lsm_generation(St, m) > 0

\* C2: a tree that is being dumped is not pinned; the primary index of a
\* secondary index that is being dumped is pinned and is not being dumped;
\* the assertions of pin_lsm and unpin_lsm on is_dumping never fail.
C2_DumpingNotPinned ==
    /\ \A l \in Lsms : is_dumping[l] => pin_count[l] = 0
    /\ \A m \in Secondaries :
        is_dumping[m] => pin_count[pk(m)] >= 1 /\ ~is_dumping[pk(m)]
    /\ failed_asserts \cap {"pin_lsm", "unpin_lsm_dumping"} = {}

\* A secondary index is being dumped, and the scheduler waits with an idle
\* dump worker although the primary index has data of the round: only the
\* pin keeps it from being dumped.
C2_Witness ==
    /\ is_dumping["S1"] /\ pin_count["P"] = 1 /\ sched.pc = "wait"
    /\ idle_workers["dump"] # <<>>
    /\ vy_lsm_generation(St, "P") = dump_generation
    /\ dump_generation \in data["P"]

\* C3: dump_generation <= generation, a round is in progress exactly when
\* dump_generation < generation, and neither of the two ever decreases.
C3_Generations ==
    /\ [](/\ dump_generation <= generation
          /\ vy_scheduler_dump_in_progress(St) <=> dump_generation < generation)
    /\ [][generation' >= generation /\ dump_generation' >= dump_generation]_vars

\* A round was completed while the next one was already asked for.
C3_Witness == dump_generation = 1 /\ generation = 2

\* C4: dump_task_count is the number of dump tasks that were created and
\* not yet completed or aborted on tx.
C4_DumpTaskCount == dump_task_count = Cardinality(TasksOf("dump"))

\* The dump task of a dropped tree is being aborted and still counted.
C4_Witness ==
    /\ sched.pc = "dump_abort" /\ dump_task_count = 1
    /\ is_dropped(St, task[sched.worker].lsm)

C6_RoundComplete ==
    [][dump_generation' # dump_generation =>
        /\ dump_task_count' = 0
        /\ \A l \in Lsms : in_dump'[l] => SetMin(mems'[l]) > dump_generation
        /\ dump_generation' =
            IF \E l \in Lsms : in_dump'[l]
            THEN SetMin({SetMin(mems'[l]) : l \in {m \in Lsms : in_dump'[m]}})
            ELSE generation'
        /\ dump_cond # <<>> => Len(dump_cond') < Len(dump_cond)]_vars

\* A round that made a run was completed and the fiber waiting in dump()
\* was woken.
C6_Witness ==
    /\ fiber_pc["d1"] = "round_woken" /\ dump_generation = generation
    /\ RunCreated

\* C7: when wait_checkpoint returns success while a checkpoint is in
\* progress, no round is in progress and every tree that is not dropped has
\* a generation at least the one begin_checkpoint set.
C7_WaitCheckpoint ==
    [][(fiber_pc["ckpt"] # "ok" /\ fiber_pc'["ckpt"] = "ok"
        /\ checkpoint_in_progress') =>
        /\ dump_generation' = generation'
        /\ \A l \in Lsms : lsm_state'[l] = "alive" =>
            SetMin(mems'[l]) >= ckpt_generation']_vars

\* wait_checkpoint returned success after the round of the checkpoint made
\* a run.
C7_Witness ==
    /\ fiber_pc["ckpt"] = "ok" /\ checkpoint_in_progress
    /\ ckpt_generation = 1 /\ dump_generation = 1 /\ RunCreated

\* C8: when a task is deleted its run was either attached to the tree with
\* create-run logged or discarded with drop-run logged, never both and
\* never neither; and every task that was created is deleted in the end.
C8_ExactlyOne ==
    /\ deleted_task.kind # "none" =>
        deleted_task.created + deleted_task.dropped = 1
    /\ \A w \in Workers : task[w].created + task[w].dropped <= 1
C8_RunFate ==
    /\ []C8_ExactlyOne
    /\ \A w \in Workers : (task[w].kind # "none") ~> (task[w].kind = "none")

\* C9: at every moment at most 10 batches of the task are in flight (sent
\* to tx and not yet freed on the worker) and every batch, the one destroy()
\* flushes included, holds at most 100 statements; the task fiber goes to
\* sleep in process() exactly when 10 batches are in flight, and sends
\* nothing while it sleeps.
InFlight == dd.tx_pipe \o dd.worker_pipe
C9_BatchCap ==
    /\ [](/\ Len(InFlight) = dd.in_progress
          /\ dd.in_progress <= MAX_IN_PROGRESS
          /\ dd.batch <= VY_DEFERRED_DELETE_BATCH_MAX
          /\ \A i \in 1..Len(InFlight) :
                 InFlight[i].count \in 1..VY_DEFERRED_DELETE_BATCH_MAX
          /\ "batch_count" \notin dd.asserts)
    /\ [][/\ (dd.pc # "sleep_process" /\ dd'.pc = "sleep_process") =>
                /\ dd.in_progress = MAX_IN_PROGRESS
                /\ dd'.tx_pipe = dd.tx_pipe
          /\ (dd.pc = "sleep_process" /\ dd'.pc = "sleep_process") =>
                Len(dd'.tx_pipe) <= Len(dd.tx_pipe)]_vars

\* 10 batches are in flight, one of them failed on tx, and the task fiber
\* sleeps in process().
C9_Witness ==
    /\ dd.pc = "sleep_process"
    /\ dd.in_progress = MAX_IN_PROGRESS
    /\ \E i \in 1..Len(dd.worker_pipe) : dd.worker_pipe[i].is_failed

\* C10 (amended): when the task is shipped back to tx it holds no unsent
\* batch and has no batch in flight: every deferred DELETE that a call of
\* process() took into a batch has been handled on tx and freed on the
\* worker, whether execute failed or the fiber was cancelled or not, and
\* no assertion of vy_task_delete or of the channel fails.
C10_ShippedClean ==
    dd.pc \in {"shipped", "deleted"} =>
        /\ dd.batch = 0
        /\ dd.in_progress = 0
        /\ InFlight = <<>>
        /\ dd.unhandled = 0
        /\ dd.unfreed = 0
        /\ dd.asserts = {}

\* The task was cancelled because a batch failed on tx, it was shipped
\* back failed and deleted.
C10_Witness ==
    /\ dd.pc = "deleted"
    /\ dd.cancelled
    /\ dd.is_failed

\* C10 as stated: every deferred DELETE passed to process() has been
\* shipped, handled and freed when the task is shipped back, also when
\* execute fails.
C10_EveryPassedShipped ==
    dd.pc \in {"shipped", "deleted"} =>
        /\ dd.refused = 0
        /\ dd.unhandled = 0
        /\ dd.unfreed = 0

\* C11: every batch comes back to the worker of its task: references of
\* statements are released only by batch_free on the thread that took them
\* in process(), never on tx and on no other worker, also when the primary
\* index was dropped or tx failed to process the batch.
C11_SameWorker ==
    /\ [](/\ \A i \in 1..Len(dd.tx_pipe) : dd.tx_pipe[i].route = dd.worker
          /\ \A i \in 1..Len(dd.worker_pipe) :
                 dd.worker_pipe[i].dest = dd.worker)
    /\ [][dd'.unfreed < dd.unfreed =>
              /\ dd.worker_pipe # <<>>
              /\ Head(dd.worker_pipe).dest = dd.worker
              /\ dd'.worker_pipe = Tail(dd.worker_pipe)
              /\ dd'.tx_pipe = dd.tx_pipe
              /\ dd.unfreed - dd'.unfreed = Head(dd.worker_pipe).count]_vars

\* tx failed to process a batch, the primary index was dropped, and the
\* task was deleted with every statement freed on its worker.
C11_Witness ==
    /\ dd.pk_dropped /\ dd.is_failed /\ dd.cancelled
    /\ dd.unfreed = 0 /\ dd.pc = "deleted"

\* C12: if tx failed to process a batch of the task, the task that is
\* shipped back is failed, carries the error of the first batch that
\* failed and its fiber was cancelled, and tx aborts it instead of
\* completing it, whatever vy_task_write_run returned.
C12_BatchFailureAborts ==
    (dd.tx_failures > 0 /\ dd.pc \in {"shipped", "deleted"}) =>
        /\ dd.is_failed
        /\ dd.diag = 1
        /\ dd.cancelled
        /\ dd.pc = "deleted" => dd.fate = "aborted"
        /\ "complete_diag" \notin dd.asserts

\* The batch that failed was the partial one flushed by destroy(),
\* vy_task_write_run returned 0 and the task was aborted on tx, the primary
\* index not being dropped.
C12_Witness ==
    /\ dd.pc = "deleted" /\ dd.fate = "aborted"
    /\ dd.rc = 0 /\ ~dd.pk_dropped
    /\ dd.failed_count \in 1..(VY_DEFERRED_DELETE_BATCH_MAX - 1)

\* C13: a call of trigger_dump() made while a dump round is in progress
\* changes nothing: generation, dump_generation, dump_pending and dump_start
\* are what they were.  So a call of trigger_dump() advances generation by
\* one at most, only when no round is in progress, and a round is in
\* progress after it: the calls made during one round advance generation
\* once at most.
C13_TriggerDumpOncePerRound ==
    [][TriggerDump =>
        /\ dump_generation < generation =>
              UNCHANGED <<generation, dump_generation, dump_pending,
                          dump_start, checkpoint_in_progress>>
        /\ generation' # generation =>
              /\ dump_generation = generation
              /\ generation' = generation + 1
              /\ dump_generation' < generation']_vars

\* Two calls were made, both of trigger_dump() or the first a checkpoint
\* begun and ended at once, and the second found the round of the first in
\* progress.
C13_Witness ==
    /\ calls_left = MaxCalls - 2
    /\ generation = 1 /\ dump_generation = 0 /\ dump_start = 1
    /\ ~dump_pending /\ ~checkpoint_in_progress
    /\ \A f \in Fibers : fiber_pc[f] \in {"idle", "absent"}
    /\ \A l \in Lsms : mems[l] = {0} /\ data[l] = {}
    /\ lsm_state["S2"] = "unborn" /\ lsm_state["S1"] = "alive"
    /\ lsm_state["P"] = "alive"

\* C14: begin_checkpoint() that succeeds adds one to generation, generation
\* stays what it is while the checkpoint is in progress, and
\* end_checkpoint() leaves it alone unless a dump is pending; only
\* trigger_dump() makes a dump pending, and none is pending outside a
\* checkpoint.  So after a checkpoint with no call of trigger_dump() between
\* its begin and its end generation is what it was before the begin plus
\* one.
C14_CheckpointAddsOne ==
    /\ [](/\ checkpoint_in_progress => generation = ckpt_generation
          /\ dump_pending => checkpoint_in_progress)
    /\ [][/\ (~checkpoint_in_progress /\ checkpoint_in_progress') =>
                /\ generation' = generation + 1
                /\ ckpt_generation' = generation + 1
          /\ (~dump_pending /\ dump_pending') => TriggerDump
          /\ (checkpoint_in_progress /\ ~checkpoint_in_progress'
                /\ ~dump_pending) =>
                generation' = ckpt_generation]_vars

\* The two calls made were begin_checkpoint() and a dump() that found the
\* checkpoint in progress and still waits for its end; the round of the
\* checkpoint is complete and the checkpoint has ended.
C14_Witness ==
    /\ calls_left = MaxCalls - 2
    /\ fiber_pc["ckpt"] = "idle" /\ ~checkpoint_in_progress
    /\ fiber_pc["d1"] \in {"ckpt_wait", "ckpt_woken"}
    /\ generation = 1 /\ dump_generation = 1

\* C15: trigger_dump() called while a checkpoint is in progress leaves
\* generation as it is; it makes a dump pending when no dump round is in
\* progress, and while the round of the checkpoint has not finished it
\* leaves dump_pending as it is too.
C15_PendingOnceRoundIsOver ==
    [][(TriggerDump /\ checkpoint_in_progress) =>
        /\ generation' = generation
        /\ dump_pending' = (dump_pending \/ dump_generation = generation)]_vars

\* A dump was triggered during a checkpoint whose round is complete, and is
\* pending.
C15_Witness ==
    /\ checkpoint_in_progress /\ dump_pending
    /\ generation = ckpt_generation /\ dump_generation = generation

\* C15 as stated: trigger_dump() called while a checkpoint is in progress
\* makes a dump pending whether the round of the checkpoint has finished or
\* not.
C15_PendingWheneverCheckpoint ==
    [][(TriggerDump /\ checkpoint_in_progress) =>
        /\ generation' = generation
        /\ dump_pending']_vars

\* C16: end_checkpoint() called with a dump pending clears
\* checkpoint_in_progress, starts a new dump round (generation is one more,
\* a round is in progress and the scheduler, if it waits on scheduler_cond,
\* is made runnable) and leaves no dump pending.
C16_EndCheckpointStartsPending ==
    [][(EndCheckpoint /\ checkpoint_in_progress /\ dump_pending) =>
        /\ ~checkpoint_in_progress'
        /\ generation' = generation + 1
        /\ dump_generation' < generation'
        /\ dump_start' = ev_monotonic_now(St)
        /\ ~dump_pending'
        /\ sched.pc = "wait" => sched'.pc = "loop"
        /\ fiber_pc'["ckpt"] = "ended_pending"]_vars

\* end_checkpoint() has started the round of a dump that was put off, on
\* top of the round of the checkpoint.
C16_Witness ==
    /\ fiber_pc["ckpt"] = "ended_pending"
    /\ ~checkpoint_in_progress /\ ~dump_pending
    /\ generation = 2 /\ dump_generation = 1 /\ dump_start = 2

\* C17: begin_checkpoint() called while the scheduler is throttled returns
\* -1 with the error of scheduler->diag, which is there whenever the
\* scheduler is throttled, and leaves generation, checkpoint_in_progress,
\* dump_start and dump_pending as they were.
C17_BeginCheckpointRefused ==
    /\ [](is_throttled => diag)
    /\ [][(BeginCheckpoint /\ is_throttled) =>
            /\ fiber_pc'["ckpt"] = "refused"
            /\ UNCHANGED <<generation, checkpoint_in_progress, dump_start,
                           dump_pending, dump_generation, diag, sched>>]_vars

\* begin_checkpoint() was refused and the scheduler still sleeps.
C17_Witness ==
    /\ fiber_pc["ckpt"] = "refused"
    /\ is_throttled /\ diag /\ sched.pc = "sleep"
    /\ ~checkpoint_in_progress

\* A step that is a call of dump() by fiber f.
DumpCalled(f) ==
    /\ fiber_pc[f] \in {"idle", "ok", "fail", "refused"}
    /\ calls_left > 0
    /\ Commit(vy_scheduler_dump(Call(St), f))

\* C18: dump() called while the scheduler is throttled and no checkpoint is
\* in progress adds one to generation and returns -1 with the error of
\* scheduler->diag in the same step: it does not wait on dump_cond, the
\* scheduler is still throttled and the round is still in progress.  Called
\* while a checkpoint is in progress it waits on dump_cond for the end of
\* the checkpoint, throttled or not.
C18_DumpRefused ==
    [][\A f \in DumpFibers : (DumpCalled(f) /\ is_throttled) =>
        IF checkpoint_in_progress
        THEN /\ fiber_pc'[f] = "ckpt_wait"
             /\ \E i \in 1..Len(dump_cond') : dump_cond'[i] = f
             /\ generation' = generation
        ELSE /\ fiber_pc'[f] = "refused"
             /\ \A i \in 1..Len(dump_cond') : dump_cond'[i] # f
             /\ generation' = generation + 1
             /\ dump_generation' < generation'
             /\ is_throttled' /\ sched'.pc = "sleep" /\ diag']_vars

\* dump() was refused and the scheduler still sleeps.
C18_Witness ==
    /\ fiber_pc["d1"] = "refused"
    /\ is_throttled /\ diag /\ sched.pc = "sleep"
    /\ dump_generation < generation

\* C18 as stated: dump() called while the scheduler is throttled returns -1
\* at once, whether a checkpoint is in progress or not.
C18_DumpRefusedAlways ==
    [][\A f \in DumpFibers : (DumpCalled(f) /\ is_throttled) =>
        fiber_pc'[f] = "refused"]_vars

\* C19: when the scheduler enters back-off, every fiber that waits on
\* dump_cond in wait_checkpoint() or in the second loop of dump() is woken.
C19_EveryWaiterWoken ==
    [][(~is_throttled /\ is_throttled') =>
        \A f \in Fibers :
            /\ fiber_pc[f] = "wait" => fiber_pc'[f] = "woken"
            /\ fiber_pc[f] = "round_wait" => fiber_pc'[f] = "round_woken"]_vars

\* The scheduler fiber has yielded in ->complete or ->abort of a processed
\* task, in the loop over the processed tasks.
Draining(pc) ==
    pc \in {"dump_complete", "dump_complete_discard", "dump_abort",
            "compact_complete", "compact_abort"}

\* C20: an iteration of the scheduler loop in which a task has failed ends
\* in back-off: from a yield in the loop over the processed tasks, with a
\* failed task counted or the task at hand aborted as failed, the fiber
\* goes on to the next yield of that loop or to the back-off sleep, and not
\* to a new task or to the wait for changes.
C20_FailureThrottles ==
    [][(/\ Draining(sched.pc)
        /\ sched.tasks_failed > 0 \/ sched.rc # 0
        /\ sched' # sched) =>
            \/ Draining(sched'.pc) /\ sched'.tasks_failed > 0
            \/ sched'.pc = "sleep" /\ is_throttled']_vars

\* min(60, 2^(k-1)) seconds.
BackoffSeconds(k) ==
    IF 2^(k - 1) < VY_SCHEDULER_TIMEOUT_MAX THEN 2^(k - 1)
    ELSE VY_SCHEDULER_TIMEOUT_MAX

\* C21: the k-th back-off in a row since vy_task_complete() last returned 0
\* for a task, or since the scheduler was started, sleeps min(60, 2^(k-1))
\* seconds: while the scheduler is throttled timeout is that, so it is in
\* 1..60, and after a loop iteration in which a task was completed timeout
\* is 0 and the next back-off is the first again.
C21_BackoffDoubles ==
    /\ [](is_throttled =>
            /\ backoffs >= 1
            /\ timeout = BackoffSeconds(backoffs)
            /\ timeout \in VY_SCHEDULER_TIMEOUT_MIN..VY_SCHEDULER_TIMEOUT_MAX)
    /\ []((backoffs = 0 /\ ~Draining(sched.pc)) => timeout = 0)

\* The scheduler sleeps 60 seconds for the second time in a row, in the
\* eighth back-off after a task was completed; one failure came before
\* that task.
C21_Witness ==
    /\ is_throttled /\ sched.pc = "sleep"
    /\ backoffs = 8 /\ timeout = 60
    /\ errors_left = 0

\* C22: when the scheduler takes a processed task whose tree has been
\* dropped, it runs ->abort and vy_task_complete() returns 0, whether
\* ->execute had failed or not; when the abort has returned the task is
\* deleted and counted as done and not as failed (with the last task of the
\* batch done the timeout is reset), and unless a failure is injected in
\* the same step scheduler->diag is what it was and the scheduler is not
\* throttled.
C22_DroppedTreeAborts ==
    [][/\ (/\ Draining(sched'.pc)
           /\ sched'.worker # sched.worker
           /\ lsm_state'[sched'.lsm] = "dropped") =>
                /\ sched'.pc \in {"dump_abort", "compact_abort"}
                /\ sched'.rc = 0
       /\ (/\ sched.pc \in {"dump_abort", "compact_abort"}
           /\ sched.rc = 0
           /\ sched' # sched) =>
                /\ task'[sched.worker] = NoTask
                /\ IF Len(sched.batch) > 1
                   THEN /\ sched'.tasks_done = sched.tasks_done + 1
                        /\ sched'.tasks_failed = sched.tasks_failed
                   ELSE timeout' = 0 \/ errors_left' # errors_left
                /\ errors_left' = errors_left =>
                      /\ diag' = diag
                      /\ ~is_throttled'
                      /\ backoffs' = 0]_vars

\* The one failure the environment had to inject made a task fail, and the
\* task was aborted and deleted without the scheduler recording an error or
\* backing off: its tree had been dropped.
C22_Witness ==
    /\ errors_left = 0 /\ ~diag /\ backoffs = 0 /\ timeout = 0
    /\ \A w \in Workers : task[w] = NoTask
    /\ deleted_task.kind # "none" /\ deleted_task.created = 0
    /\ sched.pc = "wait"
    /\ \E l \in Lsms : lsm_state[l] = "dropped"

\* The dump round can only end by a call of vy_scheduler_complete_dump()
\* that finds no dump task in flight and, on top of the dump heap, no tree
\* of dump_generation. A round is wedged when the scheduler waits for
\* scheduler_cond with every worker idle and nothing to process, and no
\* tree of the heap belongs to the round any more although trees are left.
RoundWedged ==
    /\ dump_generation < generation
    /\ dump_task_count = 0
    /\ sched.pc = "wait"
    /\ processed_tasks = <<>>
    /\ \A w \in Workers : task[w] = NoTask
    /\ DumpHeap(St) # {}
    /\ \A l \in DumpHeap(St) : vy_lsm_generation(St, l) > dump_generation

\* C23: a dropped tree never wedges a dump round: when the trees that still
\* belonged to dump_generation were dropped, with a task in flight or while
\* they waited to be picked, the round is over once no dump task is in
\* flight, so the scheduler never comes to rest in a round no tree of the
\* dump heap belongs to.
C23_DroppedTreeNeverWedges == ~RoundWedged

\* C24: a tree is in the dump heap iff it is in the compact heap iff it was
\* added to the scheduler and not removed since; a dropped tree is in
\* neither heap, and the completion or abort of a task on it does not put
\* it back: the assertions of add_lsm, remove_lsm and update_lsm on the
\* heap positions never fail.
C24_HeapMembership ==
    /\ \A l \in Lsms : /\ in_dump[l] = in_compact[l]
                        /\ in_dump[l] = (lsm_state[l] = "alive")
    /\ failed_asserts \cap {"add_lsm", "remove_lsm", "update_lsm",
                            "update_lsm_dropped"} = {}

\* The only tree that was dropped had a dump task in flight whose execution
\* failed; the task was aborted and deleted, the tree is not being dumped
\* any more and is in no heap.
C24_Witness ==
    /\ errors_left = 0 /\ ~diag
    /\ \A w \in Workers : task[w] = NoTask
    /\ deleted_task.kind = "dump"
    /\ \E l \in Lsms :
        /\ lsm_state[l] = "dropped" /\ ~is_dumping[l]
        /\ ~in_dump[l] /\ ~in_compact[l]
        /\ \A m \in Lsms \ {l} : lsm_state[m] # "dropped"

\* C25: a fiber that waits in dump() for the round to finish returns once
\* no round is in progress, also when several fibers wait on dump_cond:
\* with no round in progress no fiber is left blocked in the second loop of
\* dump().
C25_DumpWaitersReturn ==
    ~vy_scheduler_dump_in_progress(St) =>
        \A f \in DumpFibers : fiber_pc[f] # "round_wait"

\* The scheduler fiber runs up to its wait for scheduler_cond in a round
\* in which every in-memory tree of every tree is empty and no task is in
\* flight.
EmptyRound ==
    /\ dump_generation < generation
    /\ \A l \in Lsms : data[l] = {}
    /\ \A w \in Workers : task[w] = NoTask
    /\ processed_tasks = <<>>
    /\ sched.pc \in {"loop", "sleep", "dump_wait_pinned"}
    /\ sched'.pc = "wait"

\* C26 as it is stated: in a round for trees whose sealed in-memory tree is
\* empty the scheduler logs a dump-lsm record for each tree and no
\* create-run record, dump_generation becomes generation and
\* dump_complete_cb is called exactly once.
C26_EmptyDumpLogged ==
    [][EmptyRound =>
        /\ \A l \in Alive : log'.dump_lsm[l] >= 1
        /\ log'.create_run = log.create_run
        /\ dump_generation' = generation'
        /\ log'.dump_complete_cb = log.dump_complete_cb + 1]_vars

\* C26, amended: in such a round the scheduler deletes the empty sealed
\* trees without a task and writes nothing to the vylog, neither dump-lsm
\* nor create-run; dump_generation becomes generation and
\* dump_complete_cb is called exactly once.
C26_EmptyDumpNotLogged ==
    [][EmptyRound =>
        /\ log'.dump_lsm = log.dump_lsm
        /\ log'.create_run = log.create_run
        /\ \A w \in Workers : task'[w] = NoTask
        /\ deleted_task' = deleted_task
        /\ dump_generation' = generation'
        /\ log'.dump_complete_cb = log.dump_complete_cb + 1]_vars

\* The first round is over with one call of dump_complete_cb, no task was
\* ever made, nothing was written and nothing is in the vylog.
C26_Witness ==
    /\ log.on /\ log.dump_complete_cb = 1
    /\ dump_generation = 1 /\ generation = 1
    /\ \A l \in Lsms : /\ data[l] = {} /\ log.dump_lsm[l] = 0
                        /\ log.create_run[l] = 0
    /\ deleted_task.kind = "none" /\ errors_left = MaxErrors
    /\ calls_left = LogCalls - 1
    /\ sched.pc = "wait"

C28_NewSliceInPlace ==
    [][\A k \in CompactSlots :
        (lt.compact[k].pc = "log" /\ lt'.compact[k].pc = "unpin") =>
        LET c == lt.compact[k]
            sl == lt'.slices[c.range]
            n == Len(c.added)
            m == IF c.new_slice THEN 1 ELSE 0
        IN /\ Len(sl) = n + m + Len(c.older)
           /\ SubSeq(sl, 1, n) = c.added
           /\ c.new_slice => sl[n + 1].run = c.run
           /\ SubSeq(sl, n + m + 1, Len(sl)) = c.older
           /\ \A r \in Ranges \ {c.range} : lt'.slices[r] = lt.slices[r]]_vars

\* A compaction of two slices has just put its new slice between a slice
\* that a dump added while it was in flight and an older slice.
C28_Witness ==
    \E k \in CompactSlots :
        /\ lt.compact[k].pc = "unpin" /\ lt.compact[k].new_slice
        /\ lt.compact[k].first_slice # lt.compact[k].last_slice
        /\ lt.compact[k].added # <<>> /\ lt.compact[k].older # <<>>
        /\ Len(lt.slices[lt.compact[k].range]) = 3
        /\ lt.slices[lt.compact[k].range][2].run = lt.compact[k].run

\* C29: the scheduler fiber never waits for scheduler_cond while a task
\* that a worker shipped back is in processed_tasks, whenever the task
\* arrived; so every such task is completed or aborted.
C29_NeverWaitsOnProcessedTasks ==
    ~(sched.pc = "wait" /\ processed_tasks # <<>>)

\* C30: no step taken while a checkpoint is in progress, and not ending
\* it, changes generation: a call of trigger_dump() changes nothing but
\* dump_pending, a call of dump() leaves the caller waiting on dump_cond,
\* and a fiber that waits in dump() for the end of the checkpoint goes on
\* waiting as long as the checkpoint is in progress.
C30_CheckpointHoldsGeneration ==
    [][/\ (checkpoint_in_progress /\ checkpoint_in_progress') =>
                generation' = generation
       /\ (checkpoint_in_progress /\ TriggerDump) =>
                /\ dump_pending' \in {dump_pending, TRUE}
                /\ UNCHANGED <<generation, dump_generation, dump_start,
                               checkpoint_in_progress, sched, dump_cond,
                               fiber_pc>>
       /\ \A f \in DumpFibers :
            /\ (checkpoint_in_progress /\ DumpCalled(f)) =>
                    /\ fiber_pc'[f] = "ckpt_wait"
                    /\ f \in {dump_cond'[i] : i \in DOMAIN dump_cond'}
                    /\ UNCHANGED <<generation, dump_start, sched>>
            /\ (/\ fiber_pc[f] \in {"ckpt_wait", "ckpt_woken"}
                /\ checkpoint_in_progress /\ checkpoint_in_progress') =>
                    fiber_pc'[f] \in {"ckpt_wait", "ckpt_woken"}]_vars

\* The round of the checkpoint is over and the checkpoint still in
\* progress; trigger_dump() was called and made a dump pending, dump() was
\* called and its caller waits; generation is that of the checkpoint.
C30_Witness ==
    /\ checkpoint_in_progress /\ dump_pending
    /\ fiber_pc["d1"] \in {"ckpt_wait", "ckpt_woken"}
    /\ generation = 1 /\ ckpt_generation = 1 /\ dump_generation = 1
    /\ calls_left = 0


\* Nothing is left to happen unless a new call is made: no round is in
\* progress, the scheduler fiber waits on scheduler_cond, no task is in flight
\* or processed and no fiber has been woken.
Quiescent ==
    /\ ~vy_scheduler_dump_in_progress(St)
    /\ sched.pc = "wait"
    /\ processed_tasks = <<>>
    /\ \A w \in Workers : task[w] = NoTask
    /\ \A f \in Fibers : fiber_pc[f] \notin {"woken", "ckpt_woken",
                                             "round_woken"}

\* C31: a fiber that called dump() during a checkpoint resumes once
\* end_checkpoint has cleared checkpoint_in_progress, with no need of a later
\* round or failure: it is never left blocked on dump_cond in the first loop
\* of dump() with no checkpoint in progress and nothing left to happen.
C31_DumpResumesAfterCheckpoint ==
    \A f \in DumpFibers :
        fiber_pc[f] = "ckpt_wait" /\ Quiescent => checkpoint_in_progress


\* C32: the abort of a dump task of a tree that was not dropped clears
\* is_dumping, unpins the primary index if the tree is a secondary index,
\* takes one from dump_task_count, has logged one drop-run record for the
\* new run, and leaves every in-memory tree, generation and dump_generation
\* as they were: the round stays in progress and the tree, still in the dump
\* heap with the generation of the round, is eligible for a dump again.
C32_DumpAbortFrame ==
    (sched.pc = "dump_abort" /\ ~is_dropped(St, sched.lsm)) =>
        LET l == sched.lsm
            w == sched.worker
            r == vy_task_dump_abort(St, w)
        IN /\ task[w].kind = "dump" /\ task[w].lsm = l
           /\ task[w].dropped = 1 /\ task[w].created = 0
           /\ is_dumping[l] /\ ~r.is_dumping[l]
           /\ r.is_dumping = [is_dumping EXCEPT ![l] = FALSE]
           /\ r.pin_count = IF index_id(l) # 0
                            THEN [pin_count EXCEPT ![pk(l)] = @ - 1]
                            ELSE pin_count
           /\ \A m \in Lsms : r.pin_count[m] >= 0
           /\ r.dump_task_count = dump_task_count - 1
           /\ r.dump_task_count >= 0
           /\ r.mems = mems /\ r.data = data
           /\ r.generation = generation
           /\ r.dump_generation = dump_generation
           /\ r.dump_generation < r.generation
           /\ r.in_dump[l] /\ r.pin_count[l] = 0
           /\ vy_lsm_generation(r, l) = r.dump_generation
           /\ r.failed_asserts = failed_asserts
           /\ r.dump_cond = dump_cond /\ r.fiber_pc = fiber_pc

\* The dump task of a secondary index failed and was aborted: the scheduler
\* sleeps in its back-off, the task is deleted with one drop-run record and
\* no run, no dump task is left, nothing is pinned, and the tree, with its
\* statements still in memory, is eligible for a dump in the round that is
\* still in progress.
C32_Witness ==
    /\ sched.pc = "sleep" /\ is_throttled
    /\ deleted_task = [kind |-> "dump", created |-> 0, dropped |-> 1]
    /\ dump_task_count = 0
    /\ \A m \in Lsms : pin_count[m] = 0
    /\ \E l \in Secondaries : l \in Eligible /\ data[l] # {}


\* vy_schedule() is called with nothing to process first, in a round in
\* progress, when the top of the dump heap is eligible and a worker of the
\* dump pool is idle.
DumpFirstCase ==
    /\ SchedulerRun \/ SchedulerWakeUp
    /\ processed_tasks = <<>>
    /\ vy_dump_heap_top(St) \in Eligible
    /\ PoolStarted(St, "dump").idle_workers["dump"] # <<>>

\* The in-memory trees of tree l that a dump of the round would write hold
\* statements.
HasDataToDump(l) == \E g \in data[l] : g <= dump_generation

\* C33 as it is stated: in that case the scheduler does not go on to make a
\* compaction task: the next task is a dump task.
C33_DumpAlwaysFirst ==
    [][DumpFirstCase =>
            sched'.pc \notin {"compact_new", "compact_split"}]_vars

\* C33 (amended): tasks of each kind run on workers of their own pool, and
\* vy_schedule() tries dump first: in that case it calls the constructor of
\* a dump task for the top of the dump heap with a worker of the dump pool,
\* however many compaction tasks run; when the tree has statements to dump
\* the scheduler stops in that constructor or in its back-off, and it goes
\* on to compaction or waits only when every in-memory tree of the round
\* was empty, so that they were deleted and no dump task was made.
C33_DumpTriedFirst ==
    /\ [](\A w \in Workers : task[w].kind # "none" => task[w].kind = w[1])
    /\ [][DumpFirstCase =>
            LET pn == vy_dump_heap_top(St)
            IN /\ HasDataToDump(pn) =>
                    \/ /\ sched'.pc \in {"dump_new", "dump_wait_pinned"}
                       /\ sched'.lsm = pn /\ sched'.worker[1] = "dump"
                       /\ sched'.worker = Head(PoolStarted(St, "dump")
                                                .idle_workers["dump"])
                    \/ sched'.pc = "sleep" /\ errors_left' < errors_left
               /\ sched'.pc \in {"compact_new", "compact_split", "wait"} =>
                    /\ ~HasDataToDump(pn)
                    /\ vy_lsm_generation(St', pn) > dump_generation
               /\ sched'.pc \in {"dump_new", "dump_wait_pinned"} =>
                    sched'.worker[1] = "dump"
               /\ sched'.pc \in {"compact_new", "compact_split"} =>
                    sched'.worker[1] = "compact"]_vars

\* The scheduler has taken the idle dump worker and is in the constructor of
\* a dump task while a compaction task runs on a worker of the compact pool.
C33_Witness ==
    /\ sched.pc = "dump_new" /\ sched.worker[1] = "dump"
    /\ TasksOf("compact") # {}
    /\ \A w \in TasksOf("compact") : w[1] = "compact"
    /\ HasDataToDump(sched.lsm)


\* The compaction tasks in flight, and their ranges.
Compacting == {k \in CompactSlots : lt.compact[k].pc # "none"}
CompactedRanges == {lt.compact[k].range : k \in Compacting}

CompactedSlicesOf(u, run) ==
    {i \in u.first..u.last : u.slices[i] = run}

\* C35: the runs logged with drop-run, which are the runs taken out of the
\* LSM tree, are the runs all of whose slices are among the compacted
\* slices; each is listed once, also when several of its slices were
\* compacted; a run with a slice outside the compacted ones is not listed;
\* and compacted_slice_count of every run is 0 afterwards.
C35_UnusedRuns ==
    LET u == lt.unused
        listed == {u.drop_run[i] : i \in DOMAIN u.drop_run}
    IN u.slices # <<>> =>
        /\ u.drop_run = u.unused_runs
        /\ listed = {run \in RunIds :
                        /\ CompactedSlicesOf(u, run) # {}
                        /\ Cardinality(CompactedSlicesOf(u, run))
                                = u.slice_count[run]}
        /\ Len(u.drop_run) = Cardinality(listed)
        /\ \A run \in RunIds : u.compacted_slice_count[run] = 0

\* The task compacted three of the four slices of a range: two are all the
\* slices of one run, which is listed once; the third is of a run that has
\* another slice in the range, behind the compacted ones, and is not listed.
C35_Witness ==
    LET u == lt.unused
    IN /\ Len(u.slices) = 4 /\ u.first = 1 /\ u.last = 3
       /\ u.slices[1] = u.slices[3] /\ u.slices[2] = u.slices[4]
       /\ u.slices[1] # u.slices[2]
       /\ u.slice_count[u.slices[1]] = 2
       /\ u.drop_run = <<u.slices[1]>>


\* C36: when the scheduler is about to delete the dumped in-memory trees of
\* a dump task that succeeded, the sealed trees it deletes, those not newer
\* than dump_generation, are the trees that were given to the task's write
\* iterator when the task was made: a tree sealed while the task was in
\* flight is newer than dump_generation and is kept, with its statements.
C36_DeletesWhatWasDumped ==
    sched.pc \in {"dump_complete", "dump_complete_discard"} =>
        LET l == sched.lsm
            r == vy_task_dump_complete(St, sched.worker)
            sealed == mems[l] \ {ActiveMem(St, l)}
        IN /\ mems[l] \ r.mems[l] = log.wi[l]
           /\ log.wi[l] = {g \in sealed : g <= dump_generation}
           /\ log.wi[l] # {} /\ log.wi[l] \subseteq data[l]
           /\ r.data[l] = data[l] \ log.wi[l]
           /\ \A g \in mems[l] \ log.wi[l] : g > dump_generation

\* A dump task has been executed and the scheduler is in the vylog commit
\* of its completion; while the task was in flight the tree was written
\* to, a later call advanced generation and another write rotated the
\* active in-memory tree: the tree has a sealed in-memory tree with
\* statements that the task's write iterator was not given.
C36_Witness ==
    /\ sched.pc = "dump_complete"
    /\ \E g \in mems[sched.lsm] \ log.wi[sched.lsm] :
        /\ g # ActiveMem(St, sched.lsm)
        /\ g \in data[sched.lsm]
    /\ log.wi[sched.lsm] # {}


\* C37: whenever vy_scheduler_peek_dump() finds, in a round in progress,
\* that the top of the dump heap is not eligible, a dump task is in flight:
\* its assertion dump_task_count > 0 never fails.
C37_PeekDumpAssertion == "peek_dump" \notin failed_asserts


\* C38: dump_pending is set only while a checkpoint is in progress and no
\* round is; end_checkpoint() leaves it clear, and starts one round if it
\* was set and none otherwise; so it is clear when the next checkpoint
\* begins.
C38_PendingOnlyInCheckpoint ==
    /\ [](dump_pending =>
            checkpoint_in_progress /\ ~vy_scheduler_dump_in_progress(St))
    /\ [][EndCheckpoint =>
            /\ ~dump_pending' /\ ~checkpoint_in_progress'
            /\ generation' = IF dump_pending THEN generation + 1
                             ELSE generation]_vars
    /\ [][BeginCheckpoint => ~dump_pending /\ ~dump_pending']_vars

\* end_checkpoint() has just started the round that trigger_dump() asked
\* for during the checkpoint, after the checkpoint's own round was over.
C38_Witness ==
    /\ fiber_pc["ckpt"] = "ended_pending"
    /\ ~dump_pending /\ ~checkpoint_in_progress
    /\ generation = 2 /\ dump_generation = 1


\* C39: when adding a source to the write iterator fails, the constructor
\* closes the iterator, discards the prepared run with a drop-run record,
\* frees the task and returns an error, and leaves is_dumping, the pin
\* counts, dump_task_count and the range heap as they were.
C39_SourceFailureCleanup ==
    [][DumpNewSourceFails \/ CompactNewSourceFails =>
        /\ sched'.pc = "sleep" /\ diag'
        /\ log'.wi_unclosed = log.wi_unclosed
        /\ deleted_task'.dropped = 1 /\ task' = task
        /\ is_dumping' = is_dumping /\ pin_count' = pin_count
        /\ dump_task_count' = dump_task_count
        /\ range_in_heap' = range_in_heap]_vars


\* C40: stopping the worker pool terminates: while tx is in cord_join()
\* for the worker of a compaction task with deferred DELETE batches in
\* flight, or with its fiber asleep at the cap or in destroy(), some
\* thread or fiber can still take a step.
C40_PoolStopTerminates == dd.tx = "join" => ENABLED NextStop

====
